---------------------------- MODULE Spec2Model ----------------------------
(***************************************************************************)
(* Model of the data-retrieval path of the GUS data explorer:              *)
(*   - Home (src/app/page.tsx, second revision): handleWizardComplete,     *)
(*     handleAgentDataFound, the viewMode / searchMode switches;           *)
(*   - AgentSearch (src/components/AgentSearch.tsx): handleConfirm;        *)
(*   - TerritoryBrowser and UnitSelectionStep (src/components/wizard);     *)
(*   - GusClient (src/services/gus-client.ts): the gateway calls;          *)
(*   - the remote BDL source, as the environment that answers the calls.   *)
(* An async handler is one action up to its first await and one action per *)
(* response it awaits.                                                     *)
(***************************************************************************)
EXTENDS Integers, Sequences, FiniteSets, TLC

(***************************************************************************)
(* Bounds of the model.                                                    *)
(***************************************************************************)
NumVars == 2          \* variables the remote catalogue offers (ids 1..NumVars)
MaxRespUnits == 2     \* unit entries in one by-variable response page
MaxQueries == 3       \* data queries issued in one behaviour
MaxPending == 2       \* unit listings in flight at once
MaxMore == 1          \* search-more invocations of a kind in flight at once
MaxOps == 2           \* gateway operations invoked in one behaviour
MaxExports == 3       \* clicks on the CSV button in one behaviour
MaxClock == 1         \* clock readings after the first

\* The batch size the specification names for the data fetch (10).
BatchSize == 10

\* An optional value: None is JavaScript's undefined / null, Some(x) a value.
None == <<>>
Some(x) == <<x>>

VARIABLES
    remote,           \* the remote source: what it lists and how it filters
    variables,        \* wizard: the variables confirmed for the run
    unit,             \* wizard: the unit confirmed for the run
    childLevel,       \* wizard: the child level confirmed for the run, or None
    selectedYears,    \* TableConfigurationStep state
    isProcessing,     \* Home state
    data,             \* Home state
    viewMode,         \* Home state
    searchMode,       \* Home state
    resultContext,    \* Home state
    lastAlert,        \* what the last alert(...) reported
    wc,               \* the handleWizardComplete invocation
    inFlight,         \* data requests issued and not yet answered
    calls,            \* gateway calls issued so far, in issue order
    answered,         \* history: what the remote answered to the k-th request
    outOfOrder,       \* history: some response overtook an earlier request
    step,             \* AgentSearch state
    analysisResult,   \* AgentSearch state
    confirmedVars,    \* AgentSearch state
    error,            \* AgentSearch state
    ac,               \* the handleConfirm invocation
    issued,           \* history: number of data queries started so far
    dataQuery,        \* history: the query whose results `data` holds (0: none)
    currentLevelList, \* TerritoryBrowser state
    breadcrumbs,      \* TerritoryBrowser state
    isLoading,        \* TerritoryBrowser state
    pending,          \* unit listings in flight, each with its handler's closure
    selectedUnit,     \* UnitSelectionStep state
    scopeLevel,       \* UnitSelectionStep state (its childLevel)
    listLevel,        \* history: the level asked of the listing now shown
    stage,            \* staged Home state
    queryAnalysis,    \* staged Home state `analysis`
    candidateUnits,   \* staged Home state
    selectedUnitId,   \* staged Home state
    candidateVars,    \* staged Home state
    selectedVarIds,   \* staged Home state
    targetYears,      \* staged Home state
    pg,               \* the handleProceedToGrid invocation
    ops,              \* GusClient: the operations invoked, each with its outcome
    http,             \* the HTTP requests sent so far, in send order
    orientation,      \* DataDisplay state
    xmlContent,       \* DataDisplay: the memoised XML document
    downloads,        \* the CSV last downloaded under each orientation
    exports,          \* history: number of clicks on the CSV button
    now,              \* the wall clock new Date() reads
    hs,               \* the staged handleSearch invocation
    more,             \* handleSearchMoreUnits / handleSearchMoreVars in flight
    wizardStep,       \* SearchWizard state `step`
    selected,         \* VariableSearchStep state
    confirmed         \* history: what the steps last passed to onNext

wizardVars == <<variables, unit, childLevel, selectedYears>>

homeVars == <<isProcessing, data, viewMode, searchMode, resultContext, lastAlert>>

runVars == <<wc, inFlight, calls, answered, outOfOrder>>

agentVars == <<step, analysisResult, confirmedVars, error, ac>>

browserVars == <<currentLevelList, breadcrumbs, isLoading, pending,
                 selectedUnit, scopeLevel, listLevel>>

stagedVars == <<stage, queryAnalysis, candidateUnits, selectedUnitId, candidateVars,
                selectedVarIds, targetYears, pg>>

gatewayVars == <<ops, http>>

displayVars == <<orientation, xmlContent, downloads, exports, now>>

\* The staged Home's search handlers.
flowVars == <<hs, more>>

\* SearchWizard and its first step.
stepVars == <<wizardStep, selected, confirmed>>

\* The state of the components added to the wizard-era Home's model.
otherVars == <<stagedVars, gatewayVars, displayVars, flowVars, stepVars>>

vars == <<remote, wizardVars, homeVars, runVars, agentVars, issued, dataQuery,
          browserVars, otherVars>>

(***************************************************************************)
(* Values.                                                                 *)
(***************************************************************************)
VarIds == 1..NumVars

Variable(i) == [id |-> i, n1 |-> "V" \o ToString(i)]

Unit(id, level) == [id |-> id, name |-> "n" \o id, level |-> level]

\* Units the wizard's territory browser can confirm.
RootUnits == {Unit("W1", 2), Unit("P1", 5)}

\* Unit ids the data endpoints may list for a request.
SubUnitIds == {"G1", "G2"}

\* Years the remote stores values for, in the order it reports them.
StoredYears == <<2022, 2023>>

\* The years confirmed in the table step.
YearChoices == {<<2022>>}

RECURSIVE SeqRange(_)
SeqRange(s) == IF s = <<>> THEN {} ELSE {Head(s)} \cup SeqRange(Tail(s))

SeqsUpTo(S, n) == UNION {[1..k -> S] : k \in 0..n}

IsInjective(s) == \A i, j \in 1..Len(s) : s[i] = s[j] => i = j

RemoveAt(s, i) == SubSeq(s, 1, i - 1) \o SubSeq(s, i + 1, Len(s))

\* Non-empty selections of distinct catalogue variables, in basket order.
VariableSelections(ids) ==
    {[k \in 1..Len(s) |-> Variable(s[k])] :
        s \in {t \in SeqsUpTo(ids, Cardinality(ids)) : t # <<>> /\ IsInjective(t)}}

\* UnitSelectionStep: the radio options offered for the selected unit.
ChildLevelOptions(u) ==
    {None} \cup (IF u.level < 5 THEN {Some(5)} ELSE {})
           \cup (IF u.level < 6 THEN {Some(6)} ELSE {})

(***************************************************************************)
(* The remote source.                                                      *)
(***************************************************************************)
\* The number the remote stores for (variable, unit, year).
StoredValue(varId, unitId, year) ==
    varId * 100 + (year - 2020) * 10 + (IF unitId = "G1" THEN 1 ELSE 2)

RECURSIVE FilterSeq(_, _)
FilterSeq(s, S) ==
    IF s = <<>> THEN <<>>
    ELSE IF Head(s) \in S THEN <<Head(s)>> \o FilterSeq(Tail(s), S)
                          ELSE FilterSeq(Tail(s), S)

\* The years the remote reports for a request carrying `years`.
ReportedYears(years) ==
    IF remote.yearFilter THEN FilterSeq(StoredYears, SeqRange(years))
                         ELSE StoredYears

\* The value records of (variable, unit): one per reported year the remote
\* holds a value for, and, when the remote revises, a second record for
\* the first of these years.
RemoteValues(varId, unitId, years) ==
    LET ys == SelectSeq(ReportedYears(years),
                        LAMBDA y : <<varId, unitId, y>> \notin remote.gaps)
        stored == [k \in 1..Len(ys) |->
                     [year |-> ys[k], val |-> StoredValue(varId, unitId, ys[k])]]
    IN stored \o (IF remote.revises /\ ys # <<>>
                  THEN <<[year |-> ys[1],
                          val |-> StoredValue(varId, unitId, ys[1]) + 5]>>
                  ELSE <<>>)

UnitData(varId, unitId, years) ==
    [id |-> unitId, name |-> "n" \o unitId,
     values |-> RemoteValues(varId, unitId, years)]

\* Every `results` page the remote may send for /data/by-variable/{varId}.
ByVariableResults(varId, years) ==
    {Some([k \in 1..Len(s) |-> UnitData(varId, s[k], years)]) :
        s \in SeqsUpTo(remote.subUnits, MaxRespUnits)}

VariableEntry(varId, unitId, years) ==
    [id |-> varId, values |-> RemoteValues(varId, unitId, years)]

\* Every `results` the remote may send for /data/by-unit/{unitId}; None
\* stands for a body without a results field.
ByUnitResults(unitId, varIds, years) ==
    {None} \cup
    {Some([k \in 1..Len(s) |-> VariableEntry(s[k], unitId, years)]) :
        s \in SeqsUpTo(SeqRange(varIds), Len(varIds))}

\* The territorial units the remote holds, in the order it lists them.
RemoteTree ==
    << [unit |-> Unit("W2", 2), parentId |-> None],
       [unit |-> Unit("W1", 2), parentId |-> None],
       [unit |-> Unit("P2", 5), parentId |-> Some("W1")],
       [unit |-> Unit("S1", 4), parentId |-> Some("W1")],
       [unit |-> Unit("P1", 5), parentId |-> Some("W1")],
       [unit |-> Unit("G1", 6), parentId |-> Some("P1")] >>

UnitsOf(entries) == [k \in 1..Len(entries) |-> entries[k].unit]

\* The units under parentId at exactly `level`.
ListedUnits(level, parentId) ==
    UnitsOf(SelectSeq(RemoteTree,
                      LAMBDA e : e.parentId = parentId /\ e.unit.level = level))

\* The units under parentId at any level.
MixedUnits(parentId) ==
    UnitsOf(SelectSeq(RemoteTree, LAMBDA e : e.parentId = parentId))

\* Every `results` the remote may send for /units?level=..&parent-id=..
ListingResults(level, parentId) ==
    {None, Some(ListedUnits(level, parentId))}
    \cup (IF remote.mixesLevels THEN {Some(MixedUnits(parentId))} ELSE {})

\* Every `results` the remote may send for /units/search?name=..
SearchUnitsResults(name) ==
    {None, Some(<<>>),
     Some(UnitsOf(SelectSeq(RemoteTree, LAMBDA e : e.unit.name = name)))}

(***************************************************************************)
(* GusClient: the request each gateway operation sends.                    *)
(***************************************************************************)
\* unitLevel is optional and defaults to 5; parentId is optional.
getVariableData(variableId, unitLevel, year, parentId) ==
    [op |-> "getVariableData", variableId |-> variableId,
     unitLevel |-> IF unitLevel = None THEN 5 ELSE unitLevel[1],
     year |-> year, parentId |-> parentId]

getUnitData(unitId, variableIds, year) ==
    [op |-> "getUnitData", unitId |-> unitId, variableIds |-> variableIds,
     year |-> year]

getUnits(level, parentId) ==
    [op |-> "getUnits", level |-> level, parentId |-> parentId]

searchUnits(name) == [op |-> "searchUnits", name |-> name]

(***************************************************************************)
(* Home.handleWizardComplete                                               *)
(***************************************************************************)
\* The strategy test with its condition lost: every query is multi-unit.
IsMultiUnitAlways(config) == TRUE

IsMultiUnit(config) == config.childLevel # None

getUnitTypeName(level) ==
    IF level = Some(2) THEN "wojewodztwo"
    ELSE IF level = Some(4) THEN "powiat"
    ELSE IF level = Some(5) THEN "gmina"
    ELSE IF level = Some(6) THEN "dzielnica"
    ELSE "jednostka"

Analysis(config) ==
    [intent |-> "data_retrieval",
     topic |-> [k \in 1..Len(config.variables) |-> config.variables[k].n1],
     location |-> config.unit.name,
     unit |-> config.unit.name,
     scope |-> IF IsMultiUnit(config) THEN "multi_unit" ELSE "single_unit",
     targetUnitType |-> IF IsMultiUnit(config)
                        THEN Some(getUnitTypeName(config.childLevel)) ELSE None,
     years |-> Some(config.years),
     explanation |-> "Manual selection"]

VarIdsOf(vs) == [k \in 1..Len(vs) |-> vs[k].id]

\* The by-variable requests sent without the parent unit.
FetchRequestsNoParent(config) ==
    [k \in 1..Len(config.variables) |->
        getVariableData(config.variables[k].id, config.childLevel,
                        config.years, None)]

\* The by-variable requests of the multi-unit strategy, one per variable.
FetchRequests(config) ==
    [k \in 1..Len(config.variables) |->
        getVariableData(config.variables[k].id, config.childLevel,
                        config.years, Some(config.unit.id))]

\* The by-unit request of the single-unit strategy.
UnitRequest(config) ==
    getUnitData(config.unit.id, VarIdsOf(config.variables), config.years)

\* res?.results || []
OrEmpty(results) == IF results = None THEN <<>> ELSE results[1]

\* Index of the entry keyed by id in the insertion-ordered unitMap, 0 if none.
MapIndex(unitMap, id) ==
    IF \E k \in 1..Len(unitMap) : unitMap[k].id = id
    THEN CHOOSE k \in 1..Len(unitMap) : unitMap[k].id = id
    ELSE 0

\* The tag taken from a fixed variable instead of the one being iterated.
TagValueFirst(val, variableId) ==
    [year |-> val.year, val |-> val.val, variableId |-> 1]

\* {...val, variableId: variable.id}
TagValue(val, variableId) ==
    [year |-> val.year, val |-> val.val, variableId |-> variableId]

TaggedValues(unitItem, variable) ==
    [k \in 1..Len(unitItem.values) |-> TagValue(unitItem.values[k], variable.id)]

\* One iteration of the inner forEach: find-or-create, then push.
PivotUnit(unitMap, variable, unitItem) ==
    LET created == IF MapIndex(unitMap, unitItem.id) = 0
                   THEN Append(unitMap, [id |-> unitItem.id,
                                         name |-> unitItem.name,
                                         values |-> <<>>])
                   ELSE unitMap
        idx == MapIndex(created, unitItem.id)
    IN [created EXCEPT ![idx].values = @ \o TaggedValues(unitItem, variable)]

RECURSIVE PivotData(_, _, _)
PivotData(unitMap, variable, unitItems) ==
    IF unitItems = <<>> THEN unitMap
    ELSE PivotData(PivotUnit(unitMap, variable, Head(unitItems)),
                   variable, Tail(unitItems))

\* allResults.forEach(...) over the insertion-ordered map.
RECURSIVE PivotAll(_, _)
PivotAll(unitMap, allResults) ==
    IF allResults = <<>> THEN unitMap
    ELSE PivotAll(PivotData(unitMap, Head(allResults).variable,
                            Head(allResults).data),
                  Tail(allResults))

\* Array.from(unitMap.values())
UnifiedData(allResults) == PivotAll(<<>>, allResults)

IdleFrame == [pc |-> "idle", q |-> 0, config |-> None, slots |-> <<>>]

PendingSlot == [st |-> "pending", data |-> <<>>]

OkSlot(results) == [st |-> "ok", data |-> OrEmpty(results)]

FailedSlot == [st |-> "failed", data |-> <<>>]

\* The processing overlay covers the page while isProcessing is set.
Clickable == ~isProcessing

\* The handler up to its first await: state updates and every request issued.
handleWizardComplete ==
    /\ Clickable
    /\ viewMode = "WIZARD"
    /\ searchMode = "WIZARD"
    /\ wc.pc = "idle"
    /\ issued < MaxQueries
    /\ LET config == [variables |-> variables, unit |-> unit,
                      childLevel |-> childLevel, years |-> selectedYears]
           reqs == IF IsMultiUnit(config) THEN FetchRequests(config)
                                          ELSE <<UnitRequest(config)>>
       IN /\ isProcessing' = TRUE
          /\ resultContext' = Some([analysis |-> Analysis(config),
                                    variables |-> config.variables])
          /\ wc' = [pc |-> IF IsMultiUnit(config) THEN "awaitAll" ELSE "awaitUnit",
                    q |-> issued + 1,
                    config |-> Some(config),
                    slots |-> [k \in 1..Len(reqs) |-> PendingSlot]]
          /\ inFlight' = inFlight \cup
                {[owner |-> "wizard", slot |-> k, req |-> reqs[k]] :
                    k \in 1..Len(reqs)}
          /\ calls' = calls \o reqs
          /\ answered' = [k \in 1..Len(reqs) |-> None]
    /\ issued' = issued + 1
    /\ UNCHANGED <<otherVars, remote, wizardVars, data, viewMode, searchMode, lastAlert,
                   outOfOrder, agentVars, dataQuery, browserVars>>

\* { variable, data: res?.results || [] } for every settled request.
AllResults(config, slots) ==
    [k \in 1..Len(slots) |-> [variable |-> config.variables[k],
                              data |-> slots[k].data]]

Overtakes(r) == \E q \in inFlight : q.owner = r.owner /\ q.slot < r.slot

\* Results collected in the order the responses arrive.
ResultIndexArrival(r, slots) ==
    CHOOSE k \in 1..Len(slots) :
        /\ slots[k].st = "pending"
        /\ \A j \in 1..(k - 1) : slots[j].st # "pending"

\* Promise.all keeps the order of its input: the value of the k-th promise
\* is the k-th entry of allResults, whenever it settles.
ResultIndex(r, slots) == r.slot

\* A by-variable request is answered with a results page.  When it is the
\* last one Promise.all waits for, the handler runs to its end.
VariableDataArrives ==
    \E r \in inFlight :
      /\ r.owner = "wizard"
      /\ r.req.op = "getVariableData"
      /\ \E results \in ByVariableResults(r.req.variableId, r.req.year) :
           LET slots == [wc.slots EXCEPT ![ResultIndex(r, wc.slots)] =
                                             OkSlot(results)]
               allOk == \A k \in 1..Len(slots) : slots[k].st = "ok"
               unifiedData == UnifiedData(AllResults(wc.config[1], slots))
           IN /\ inFlight' = inFlight \ {r}
              /\ outOfOrder' = (outOfOrder \/ Overtakes(r))
              /\ IF wc.pc # "awaitAll"
                 THEN UNCHANGED <<wc, data, viewMode, lastAlert, isProcessing,
                                  answered, dataQuery>>
                 ELSE /\ answered' = [answered EXCEPT ![r.slot] = Some(results)]
                      /\ IF ~allOk
                         THEN /\ wc' = [wc EXCEPT !.slots = slots]
                              /\ UNCHANGED <<data, viewMode, lastAlert,
                                             isProcessing, dataQuery>>
                         ELSE /\ wc' = [wc EXCEPT !.pc = "done", !.slots = slots]
                              /\ isProcessing' = FALSE
                              /\ IF Len(unifiedData) = 0
                                 THEN /\ lastAlert' = "No data found for the selected criteria."
                                      /\ UNCHANGED <<data, viewMode, dataQuery>>
                                 ELSE /\ data' = unifiedData
                                      /\ viewMode' = "GRID"
                                      /\ dataQuery' = wc.q
                                      /\ UNCHANGED lastAlert
      /\ UNCHANGED <<otherVars, remote, wizardVars, searchMode, resultContext, calls,
                     agentVars, issued, browserVars>>

\* A by-variable request fails: Promise.all rejects at once, the handler
\* reaches catch and finally; the sibling requests stay in flight.
VariableDataFails ==
    \E r \in inFlight :
      /\ r.owner = "wizard"
      /\ r.req.op = "getVariableData"
      /\ inFlight' = inFlight \ {r}
      /\ outOfOrder' = (outOfOrder \/ Overtakes(r))
      /\ IF wc.pc = "awaitAll"
         THEN /\ wc' = [wc EXCEPT !.pc = "done", !.slots[r.slot] = FailedSlot]
              /\ lastAlert' = "Error fetching data: Failed to fetch data from GUS API"
              /\ isProcessing' = FALSE
         ELSE UNCHANGED <<wc, lastAlert, isProcessing>>
      /\ UNCHANGED <<otherVars, remote, wizardVars, data, viewMode, searchMode,
                     resultContext, calls, answered, agentVars, issued,
                     dataQuery, browserVars>>

\* The single by-unit request is answered.
UnitDataArrives ==
    \E r \in inFlight :
      /\ r.owner = "wizard"
      /\ r.req.op = "getUnitData"
      /\ wc.pc = "awaitUnit"
      /\ \E results \in ByUnitResults(r.req.unitId, r.req.variableIds, r.req.year) :
           /\ inFlight' = inFlight \ {r}
           /\ wc' = [wc EXCEPT !.pc = "done", !.slots = <<OkSlot(results)>>]
           /\ answered' = <<Some(results)>>
           /\ isProcessing' = FALSE
           /\ IF results # None
              THEN /\ data' = results[1]
                   /\ viewMode' = "GRID"
                   /\ dataQuery' = wc.q
                   /\ UNCHANGED lastAlert
              ELSE /\ lastAlert' = "No data found."
                   /\ UNCHANGED <<data, viewMode, dataQuery>>
      /\ UNCHANGED <<otherVars, remote, wizardVars, searchMode, resultContext, calls,
                     outOfOrder, agentVars, issued, browserVars>>

UnitDataFails ==
    \E r \in inFlight :
      /\ r.owner = "wizard"
      /\ r.req.op = "getUnitData"
      /\ wc.pc = "awaitUnit"
      /\ inFlight' = inFlight \ {r}
      /\ wc' = [wc EXCEPT !.pc = "done", !.slots = <<FailedSlot>>]
      /\ lastAlert' = "Error fetching data: Failed to fetch data from GUS API"
      /\ isProcessing' = FALSE
      /\ UNCHANGED <<otherVars, remote, wizardVars, data, viewMode, searchMode,
                     resultContext, calls, answered, outOfOrder, agentVars,
                     issued, dataQuery, browserVars>>

(***************************************************************************)
(* AgentSearch.handleConfirm and Home.handleAgentDataFound                 *)
(***************************************************************************)
\* What the extraction step leaves in analysisResult.
AgentAnalysis(location, years) ==
    [intent |-> "data_request", topic |-> <<"V1">>, location |-> location,
     unit |-> location, scope |-> "single_unit", targetUnitType |-> None,
     years |-> years, explanation |-> "Extracted by the agent"]

AgentAnalyses ==
    {AgentAnalysis(l, y) : l \in {"polska", "nW1"}, y \in {None, Some(<<2022>>)}}

\* analysisResult.years || [2022, 2023]
YearsOrDefault(years) == IF years = None THEN <<2022, 2023>> ELSE years[1]

\* analysisResult.location && analysisResult.location.toLowerCase() !== "polska"
NamesUnit(location) == location # "" /\ location # "polska"

IdleAgentFrame ==
    [pc |-> "idle", q |-> 0, analysis |-> None, vars |-> <<>>, live |-> FALSE]

AgentRequest(req) == [owner |-> "agent", slot |-> 0, req |-> req]

\* getVariableDataAction(primaryVar.id, 2, years)
AllVoivodshipsRequest(primaryVar, years) ==
    getVariableData(primaryVar.id, Some(2), years, None)

\* AgentSearch is rendered while the wizard view shows the agent mode.
AgentMounted == viewMode = "WIZARD" /\ searchMode = "AGENT"

\* The state of AgentSearch when it is not mounted, and when it mounts.
AgentUnmounted ==
    /\ step' = "IDLE"
    /\ analysisResult' = None
    /\ confirmedVars' = <<>>
    /\ error' = None

\* The handler up to its first await.
handleConfirm ==
    /\ Clickable
    /\ AgentMounted
    /\ step = "CONFIRMATION"
    /\ ac.pc \notin {"awaitUnits", "awaitData"}
    /\ issued < MaxQueries
    /\ IF confirmedVars = <<>>
       THEN /\ error' = Some("Please select at least one variable.")
            /\ UNCHANGED <<step, ac, inFlight, calls, issued>>
       ELSE IF analysisResult = None
       THEN UNCHANGED <<error, step, ac, inFlight, calls, issued>>
       ELSE LET analysis == analysisResult[1]
                years == YearsOrDefault(analysis.years)
                req == IF NamesUnit(analysis.location)
                       THEN searchUnits(analysis.location)
                       ELSE AllVoivodshipsRequest(confirmedVars[1], years)
            IN /\ step' = "QUERYING"
               /\ ac' = [pc |-> IF NamesUnit(analysis.location)
                                THEN "awaitUnits" ELSE "awaitData",
                         q |-> issued + 1,
                         analysis |-> analysisResult,
                         vars |-> confirmedVars,
                         live |-> TRUE]
               /\ inFlight' = inFlight \cup {AgentRequest(req)}
               /\ calls' = Append(calls, req)
               /\ issued' = issued + 1
               /\ UNCHANGED error
    /\ UNCHANGED <<otherVars, remote, wizardVars, homeVars, wc, answered, outOfOrder,
                   analysisResult, confirmedVars, dataQuery, browserVars>>

\* searchUnitsAction answers: the first hit is the unit, none means Polska;
\* the data request follows.
AgentUnitsArrive ==
    \E r \in inFlight :
      /\ r.owner = "agent"
      /\ r.req.op = "searchUnits"
      /\ \E results \in SearchUnitsResults(r.req.name) :
           LET years == YearsOrDefault(ac.analysis[1].years)
               found == results # None /\ Len(OrEmpty(results)) > 0
               req == IF found
                      THEN getUnitData(results[1][1].id, VarIdsOf(ac.vars), years)
                      ELSE AllVoivodshipsRequest(ac.vars[1], years)
           IN /\ inFlight' = (inFlight \ {r}) \cup {AgentRequest(req)}
              /\ calls' = Append(calls, req)
              /\ ac' = [ac EXCEPT !.pc = "awaitData"]
      /\ UNCHANGED <<otherVars, remote, wizardVars, homeVars, wc, answered, outOfOrder,
                     step, analysisResult, confirmedVars, error, issued,
                     dataQuery, browserVars>>

\* Home.handleAgentDataFound(items, analysis, variable)
handleAgentDataFound(items, analysis, variable) ==
    /\ data' = items
    /\ resultContext' = Some([analysis |-> analysis, variables |-> <<variable>>])
    /\ viewMode' = "GRID"

\* The data request answers: onDataFound(dataRes.results || [], ...), then
\* setStep("DONE").  The grid view replaces AgentSearch, whose state is gone.
AgentDataArrives ==
    \E r \in inFlight :
      /\ r.owner = "agent"
      /\ r.req.op \in {"getUnitData", "getVariableData"}
      /\ \E results \in
             (IF r.req.op = "getUnitData"
              THEN ByUnitResults(r.req.unitId, r.req.variableIds, r.req.year)
              ELSE ByVariableResults(r.req.variableId, r.req.year)) :
           handleAgentDataFound(OrEmpty(results), ac.analysis[1], ac.vars[1])
      /\ inFlight' = inFlight \ {r}
      /\ dataQuery' = ac.q
      /\ ac' = [ac EXCEPT !.pc = "done", !.live = FALSE]
      /\ AgentUnmounted
      /\ UNCHANGED <<otherVars, remote, wizardVars, isProcessing, searchMode, lastAlert,
                     wc, calls, answered, outOfOrder, issued, browserVars>>

\* Either request of the handler fails: catch sets the error and goes back
\* to CONFIRMATION, on the AgentSearch that started it if it is still there.
AgentRequestFails ==
    \E r \in inFlight :
      /\ r.owner = "agent"
      /\ inFlight' = inFlight \ {r}
      /\ ac' = [ac EXCEPT !.pc = "failed"]
      /\ IF ac.live
         THEN /\ error' = Some("An error occurred during data fetch.")
              /\ step' = "CONFIRMATION"
         ELSE UNCHANGED <<error, step>>
      /\ UNCHANGED <<otherVars, remote, wizardVars, homeVars, wc, calls, answered,
                     outOfOrder, analysisResult, confirmedVars, issued,
                     dataQuery, browserVars>>

(***************************************************************************)
(* AgentSearch.handleSearch (src/components/AgentSearch.tsx): extraction,  *)
(* variable search and matching, up to the confirmation step.              *)
(***************************************************************************)
\* The form enabled at every step.
FormEnabledAlways == TRUE

\* The steps at which the form can be submitted.
FormEnabled == step \in {"IDLE", "DONE", "CONFIRMATION"}

\* The awaits of handleSearch.
SearchAwaits == {"awaitAnalysis", "awaitSearch", "awaitGlobalSearch", "awaitMatch"}

\* What reRankVariablesAction may return.
MatchedVars == {<<>>, <<Variable(1)>>, <<Variable(2), Variable(1)>>}

\* catch (err): setError(err.message || "An error occurred."); setStep("IDLE")
SearchCaught(message) ==
    /\ error' = Some(message)
    /\ step' = "IDLE"
    /\ ac' = [ac EXCEPT !.pc = "failed"]

\* The form is submitted with a non-blank query: the handler up to its
\* first await.
AgentHandleSearch ==
    /\ Clickable
    /\ AgentMounted
    /\ FormEnabled
    /\ ac.pc \notin {"awaitUnits", "awaitData"}
    /\ step' = "EXTRACTING"
    /\ error' = None
    /\ confirmedVars' = <<>>
    /\ ac' = [pc |-> "awaitAnalysis", q |-> 0, analysis |-> None, vars |-> <<>>,
              live |-> TRUE, scoped |-> FALSE]
    /\ UNCHANGED <<otherVars, remote, wizardVars, homeVars, runVars,
                   analysisResult, issued, dataQuery, browserVars>>

\* analyzeQueryAction answers: a fallback analysis without keywords ends
\* the handler, an analysis without search terms throws, any other starts
\* the variable search (scoped when it names a category).
AgentAnalysisArrives ==
    /\ ac.pc = "awaitAnalysis"
    /\ ac.live
    /\ \/ /\ error' = Some("AI Service Unavailable and could not extract keywords. Please try simpler keywords.")
          /\ step' = "IDLE"
          /\ ac' = [ac EXCEPT !.pc = "returned"]
          /\ UNCHANGED <<analysisResult, confirmedVars>>
       \/ \E a \in AgentAnalyses :
            /\ analysisResult' = Some(a)
            /\ \/ SearchCaught("Could not identify variables to search for.")
               \/ \E scoped \in BOOLEAN :
                    /\ step' = "SEARCHING"
                    /\ ac' = [ac EXCEPT !.pc = "awaitSearch", !.scoped = scoped]
                    /\ UNCHANGED error
            /\ UNCHANGED confirmedVars
    /\ UNCHANGED <<otherVars, remote, wizardVars, homeVars, runVars, issued,
                   dataQuery, browserVars>>

\* searchVariablesAction answers: an empty scoped search is repeated
\* without the category, an empty search throws, candidates start the
\* matching.
AgentSearchArrives ==
    /\ ac.pc \in {"awaitSearch", "awaitGlobalSearch"}
    /\ ac.live
    /\ \E found \in BOOLEAN :
         IF found
         THEN /\ step' = "MATCHING"
              /\ ac' = [ac EXCEPT !.pc = "awaitMatch"]
              /\ UNCHANGED error
         ELSE IF ac.pc = "awaitSearch" /\ ac.scoped
         THEN /\ ac' = [ac EXCEPT !.pc = "awaitGlobalSearch"]
              /\ UNCHANGED <<step, error>>
         ELSE SearchCaught("No variables found.")
    /\ UNCHANGED <<otherVars, remote, wizardVars, homeVars, runVars, issued,
                   dataQuery, browserVars, analysisResult, confirmedVars>>

\* reRankVariablesAction answers: no match throws, the best match is put
\* up for confirmation.
AgentMatchArrives ==
    /\ ac.pc = "awaitMatch"
    /\ ac.live
    /\ \E matchedVars \in MatchedVars :
         IF matchedVars = <<>>
         THEN /\ SearchCaught("LLM could not match any relevant variables.")
              /\ UNCHANGED confirmedVars
         ELSE /\ confirmedVars' = <<matchedVars[1]>>
              /\ step' = "CONFIRMATION"
              /\ ac' = [ac EXCEPT !.pc = "returned"]
              /\ UNCHANGED error
    /\ UNCHANGED <<otherVars, remote, wizardVars, homeVars, runVars, issued,
                   dataQuery, browserVars, analysisResult>>

\* A server action of handleSearch rejects.
AgentSearchFails ==
    /\ ac.pc \in SearchAwaits
    /\ ac.live
    /\ SearchCaught("An error occurred.")
    /\ UNCHANGED <<otherVars, remote, wizardVars, homeVars, runVars, issued,
                   dataQuery, browserVars, analysisResult, confirmedVars>>

\* CategoryBrowser's onSelectionChange={setConfirmedVars}, at the
\* confirmation step.
onSelectionChange(selection) ==
    /\ Clickable
    /\ AgentMounted
    /\ step = "CONFIRMATION"
    /\ confirmedVars # selection
    /\ confirmedVars' = selection
    /\ UNCHANGED <<otherVars, remote, wizardVars, homeVars, runVars, issued,
                   dataQuery, browserVars, step, analysisResult, error, ac>>

(***************************************************************************)
(* Home: the header buttons.                                               *)
(***************************************************************************)
\* The Wizard / AI Agent buttons, shown in the wizard view.  Leaving the
\* agent mode unmounts AgentSearch.
setSearchMode(mode) ==
    /\ Clickable
    /\ viewMode = "WIZARD"
    /\ searchMode' = mode
    /\ IF searchMode = "AGENT" /\ mode # "AGENT"
       THEN /\ AgentUnmounted
            /\ ac' = [ac EXCEPT !.live = FALSE]
       ELSE UNCHANGED agentVars
    /\ UNCHANGED <<otherVars, remote, wizardVars, isProcessing, data, viewMode,
                   resultContext, lastAlert, runVars, issued, dataQuery,
                   browserVars>>

\* The New Search button, shown in the grid view.
NewSearch ==
    /\ Clickable
    /\ viewMode = "GRID"
    /\ viewMode' = "WIZARD"
    /\ UNCHANGED <<otherVars, remote, wizardVars, isProcessing, data, searchMode,
                   resultContext, lastAlert, runVars, agentVars, issued,
                   dataQuery, browserVars>>

(***************************************************************************)
(* TerritoryBrowser and UnitSelectionStep                                  *)
(***************************************************************************)
\* localeCompare on the names in use.
NameOrder == <<"nG1", "nP1", "nP2", "nS1", "nW1", "nW2">>

NameRank(name) == CHOOSE k \in 1..Len(NameOrder) : NameOrder[k] = name

RECURSIVE InsertByName(_, _)
InsertByName(sorted, u) ==
    IF sorted = <<>> THEN <<u>>
    ELSE IF NameRank(u.name) < NameRank(Head(sorted).name) THEN <<u>> \o sorted
    ELSE <<Head(sorted)>> \o InsertByName(Tail(sorted), u)

\* results.sort((a, b) => a.name.localeCompare(b.name))
RECURSIVE SortByName(_)
SortByName(units) ==
    IF units = <<>> THEN <<>>
    ELSE InsertByName(SortByName(SubSeq(units, 1, Len(units) - 1)),
                      units[Len(units)])

\* A listing in flight: the request, the handler awaiting it, and the
\* breadcrumbs that handler will set, computed from the ones it captured.
\* A listing whose handler sets no breadcrumb.
ListReqNoCrumbs(kind, level, parentId, crumbs) ==
    [kind |-> kind, req |-> getUnits(level, parentId), crumbs |-> <<>>]

ListReq(kind, level, parentId, crumbs) ==
    [kind |-> kind, req |-> getUnits(level, parentId), crumbs |-> crumbs]

\* Hierarchy BDL: 2 -> 5 -> 6; 0 when there is no level below.
NextLevel(u) == IF u.level = 2 THEN 5 ELSE IF u.level = 5 THEN 6 ELSE 0

\* UnitSelectionStep.handleSelectUnit
handleSelectUnit(u) ==
    /\ selectedUnit' = u
    /\ scopeLevel' = None

\* The handler up to its await.
loadRootUnits ==
    /\ isLoading' = TRUE
    /\ pending' = Append(pending, ListReq("root", 2, None, <<>>))

\* A unit button of the list, rendered while nothing is loading.
handleUnitClick(u) ==
    /\ ~isLoading
    /\ Len(pending) < MaxPending
    /\ handleSelectUnit(Some(u))
    /\ IF NextLevel(u) = 0
       THEN UNCHANGED <<isLoading, pending>>
       ELSE /\ isLoading' = TRUE
            /\ pending' = Append(pending,
                                 ListReq("click", NextLevel(u), Some(u.id),
                                         Append(breadcrumbs, u)))
    /\ UNCHANGED <<otherVars, remote, wizardVars, homeVars, runVars, agentVars, issued,
                   dataQuery, currentLevelList, breadcrumbs, listLevel>>

\* A breadcrumb button; index -1 is the root button.
handleBreadcrumbClick(index) ==
    /\ Len(pending) < MaxPending
    /\ IF index = -1
       THEN /\ loadRootUnits
            /\ handleSelectUnit(None)
       ELSE LET targetUnit == breadcrumbs[index + 1]
            IN /\ IF NextLevel(targetUnit) = 0
                  THEN UNCHANGED <<isLoading, pending>>
                  ELSE /\ isLoading' = TRUE
                       /\ pending' = Append(pending,
                              ListReq("crumb", NextLevel(targetUnit),
                                      Some(targetUnit.id),
                                      SubSeq(breadcrumbs, 1, index + 1)))
               /\ UNCHANGED <<selectedUnit, scopeLevel>>
    /\ UNCHANGED <<otherVars, remote, wizardVars, homeVars, runVars, agentVars, issued,
                   dataQuery, currentLevelList, breadcrumbs, listLevel>>

\* The Go Up button, rendered while there are breadcrumbs.
handleBackUp ==
    /\ Len(breadcrumbs) # 0
    /\ handleBreadcrumbClick(Len(breadcrumbs) - 2)

\* A listing answers and its handler runs to its end.
ListingArrives ==
    \E i \in 1..Len(pending) :
      LET p == pending[i]
      IN \E results \in ListingResults(p.req.level, p.req.parentId) :
           /\ pending' = RemoveAt(pending, i)
           /\ isLoading' = FALSE
           /\ IF p.kind = "click" /\ Len(OrEmpty(results)) = 0
              THEN UNCHANGED <<currentLevelList, breadcrumbs, listLevel>>
              ELSE /\ currentLevelList' = SortByName(OrEmpty(results))
                   /\ breadcrumbs' = p.crumbs
                   /\ listLevel' = Some(p.req.level)
      /\ UNCHANGED <<otherVars, remote, wizardVars, homeVars, runVars, agentVars, issued,
                     dataQuery, selectedUnit, scopeLevel>>

\* A listing fails: catch logs, finally clears the spinner.
ListingFails ==
    \E i \in 1..Len(pending) :
      /\ pending' = RemoveAt(pending, i)
      /\ isLoading' = FALSE
      /\ UNCHANGED <<otherVars, remote, wizardVars, homeVars, runVars, agentVars, issued,
                     dataQuery, currentLevelList, breadcrumbs, selectedUnit,
                     scopeLevel, listLevel>>

\* UnitSelectionStep: a radio option of the scope panel.
setChildLevel(level) ==
    /\ selectedUnit # None
    /\ level \in ChildLevelOptions(selectedUnit[1])
    /\ scopeLevel' = level
    /\ UNCHANGED <<otherVars, remote, wizardVars, homeVars, runVars, agentVars, issued,
                   dataQuery, currentLevelList, breadcrumbs, isLoading,
                   pending, selectedUnit, listLevel>>

(***************************************************************************)
(* SearchWizard and the steps it renders.                                  *)
(***************************************************************************)
\* useState<any>(null): the wizard's unit before the first confirmation.
NullUnit == [id |-> "null", name |-> "null", level |-> 0]

\* TableConfigurationStep's useState<number[]>([2023, 2022]).
InitialYears == <<2023, 2022>>

\* The year buttons explored.
YearButtons == {2022, 2023}

\* Home renders the wizard, and no overlay covers it.
WizardRendered == Clickable /\ viewMode = "WIZARD" /\ searchMode = "WIZARD"

\* UnitSelectionStep mounts with its TerritoryBrowser, whose effect starts
\* the root listing.
MountUnitStep ==
    /\ selectedUnit' = None
    /\ scopeLevel' = None
    /\ currentLevelList' = <<>>
    /\ breadcrumbs' = <<>>
    /\ isLoading' = TRUE
    /\ pending' = <<ListReq("root", 2, None, <<>>)>>
    /\ listLevel' = None

\* UnitSelectionStep unmounts: the listings in flight find no component.
UnmountUnitStep ==
    /\ selectedUnit' = None
    /\ scopeLevel' = None
    /\ currentLevelList' = <<>>
    /\ breadcrumbs' = <<>>
    /\ isLoading' = FALSE
    /\ pending' = <<>>
    /\ listLevel' = None

\* VariableSearchStep: CategoryBrowser reports a changed basket.
setSelected(selection) ==
    /\ WizardRendered
    /\ wizardStep = 1
    /\ selected # selection
    /\ selected' = selection
    /\ UNCHANGED <<remote, wizardVars, homeVars, runVars, agentVars, issued,
                   dataQuery, browserVars, stagedVars, gatewayVars,
                   displayVars, flowVars, wizardStep, confirmed>>

\* handleUnitNext without its setChildLevel(level).
handleUnitNextKeepsLevel ==
    /\ WizardRendered
    /\ wizardStep = 2
    /\ selectedUnit # None
    /\ unit' = selectedUnit[1]
    /\ wizardStep' = 3
    /\ confirmed' = [confirmed EXCEPT !.unit = selectedUnit,
                                      !.childLevel = scopeLevel]
    /\ selectedYears' = InitialYears
    /\ UnmountUnitStep
    /\ UNCHANGED <<remote, variables, childLevel, homeVars, runVars, agentVars,
                   issued, dataQuery, stagedVars, gatewayVars, displayVars,
                   flowVars, selected>>

\* The Next button of VariableSearchStep (disabled on an empty basket)
\* calls handleVariablesNext(selected); the second step mounts.
handleVariablesNext ==
    /\ WizardRendered
    /\ wizardStep = 1
    /\ Len(selected) # 0
    /\ variables' = selected
    /\ wizardStep' = 2
    /\ confirmed' = [confirmed EXCEPT !.variables = selected]
    /\ MountUnitStep
    /\ UNCHANGED <<remote, unit, childLevel, selectedYears, homeVars, runVars,
                   agentVars, issued, dataQuery, stagedVars, gatewayVars,
                   displayVars, flowVars, selected>>

\* UnitSelectionStep.handleNext (its button is disabled without a unit)
\* calls handleUnitNext(selectedUnit, childLevel); the third step mounts.
handleUnitNext ==
    /\ WizardRendered
    /\ wizardStep = 2
    /\ selectedUnit # None
    /\ unit' = selectedUnit[1]
    /\ childLevel' = scopeLevel
    /\ wizardStep' = 3
    /\ confirmed' = [confirmed EXCEPT !.unit = selectedUnit,
                                      !.childLevel = scopeLevel]
    /\ selectedYears' = InitialYears
    /\ UnmountUnitStep
    /\ UNCHANGED <<remote, variables, homeVars, runVars, agentVars, issued,
                   dataQuery, stagedVars, gatewayVars, displayVars, flowVars,
                   selected>>

\* onBack of the second step: VariableSearchStep mounts with
\* initialSelected = variables.
handleBackToVariables ==
    /\ WizardRendered
    /\ wizardStep = 2
    /\ wizardStep' = 1
    /\ selected' = variables
    /\ UnmountUnitStep
    /\ UNCHANGED <<remote, wizardVars, homeVars, runVars, agentVars, issued,
                   dataQuery, stagedVars, gatewayVars, displayVars, flowVars,
                   confirmed>>

\* onBack of the third step: UnitSelectionStep mounts afresh.
handleBackToUnit ==
    /\ WizardRendered
    /\ wizardStep = 3
    /\ wizardStep' = 2
    /\ MountUnitStep
    /\ UNCHANGED <<remote, wizardVars, homeVars, runVars, agentVars, issued,
                   dataQuery, stagedVars, gatewayVars, displayVars, flowVars,
                   selected, confirmed>>

\* prev.includes(year) ? prev.filter(y => y !== year) : [...prev, year]
toggleYear(year) ==
    /\ WizardRendered
    /\ wizardStep = 3
    /\ selectedYears' = IF year \in SeqRange(selectedYears)
                        THEN SelectSeq(selectedYears, LAMBDA y : y # year)
                        ELSE Append(selectedYears, year)
    /\ UNCHANGED <<remote, variables, unit, childLevel, homeVars, runVars,
                   agentVars, issued, dataQuery, browserVars, stagedVars,
                   gatewayVars, displayVars, flowVars, stepVars>>

\* The Generate Data button (disabled without a year): handleTableNext
\* passes the wizard's variables, unit and childLevel to onComplete.
handleTableNext ==
    /\ wizardStep = 3
    /\ Len(selectedYears) # 0
    /\ handleWizardComplete

(***************************************************************************)
(* Home, staged revision (src/app/page.tsx, first revision):               *)
(* handleProceedToGrid and the configuration stage.                        *)
(***************************************************************************)
\* The unit type names the query analysis may put in targetUnitType.
TargetUnitTypes == {"wojewodztwo", "Powiat", "gmina", "dzielnica"}

\* String.toLowerCase on the type names in use.
toLowerCase(type) == IF type = "Powiat" THEN "powiat" ELSE type

\* String.includes on the lower-cased type names in use.
includes(t, fragment) ==
    <<t, fragment>> \in {<<"wojewodztwo", "wojew">>, <<"powiat", "powiat">>,
                         <<"gmina", "gmin">>}

getLevelFromUnitType(type) ==
    IF type = None THEN 5
    ELSE LET t == toLowerCase(type[1])
         IN IF includes(t, "wojew") THEN 2
            ELSE IF includes(t, "powiat") THEN 4
            ELSE IF includes(t, "gmin") THEN 5
            ELSE 5

\* What handleSearch leaves in `analysis`.
StagedAnalysis(scope, targetUnitType) ==
    [intent |-> "data_request", scope |-> scope,
     targetUnitType |-> targetUnitType]

StagedAnalyses ==
    {StagedAnalysis("single_unit", None)}
    \cup {StagedAnalysis("multi_unit", t) :
            t \in {None} \cup {Some(x) : x \in TargetUnitTypes}}

IdleGridFrame == [pc |-> "idle", varIds |-> <<>>, slots |-> <<>>]

\* The configuration stage is shown; the clicks explored are those made
\* before the fetch is started.
Configuring == stage = "CONFIGURATION" /\ pg.pc = "idle"

\* The unit rows of the configuration stage.
setSelectedUnitId(id) ==
    /\ Configuring
    /\ selectedUnitId # Some(id)
    /\ selectedUnitId' = Some(id)
    /\ UNCHANGED <<remote, wizardVars, homeVars, runVars, agentVars, issued,
                   dataQuery, browserVars, gatewayVars, displayVars, flowVars, stepVars, stage,
                   queryAnalysis, candidateUnits, candidateVars, selectedVarIds,
                   targetYears, pg>>

\* prev.includes(id) ? prev.filter(v => v !== id) : [...prev, id]
toggleVariable(id) ==
    /\ Configuring
    /\ selectedVarIds' = IF id \in SeqRange(selectedVarIds)
                         THEN SelectSeq(selectedVarIds, LAMBDA v : v # id)
                         ELSE Append(selectedVarIds, id)
    /\ UNCHANGED <<remote, wizardVars, homeVars, runVars, agentVars, issued,
                   dataQuery, browserVars, gatewayVars, displayVars, flowVars, stepVars, stage,
                   queryAnalysis, candidateUnits, selectedUnitId, candidateVars,
                   targetYears, pg>>

\* The by-variable requests of the staged multi-unit strategy.
GridFetchRequests(targetLevel) ==
    [k \in 1..Len(selectedVarIds) |->
        getVariableData(selectedVarIds[k], Some(targetLevel), targetYears,
                        selectedUnitId)]

\* The handler up to its first await.  The button is disabled, and the
\* handler returns, without a unit or without a variable.
handleProceedToGrid ==
    /\ Configuring
    /\ issued < MaxQueries
    /\ selectedUnitId # None
    /\ Len(selectedVarIds) # 0
    /\ LET multiUnit == queryAnalysis # None /\ queryAnalysis[1].scope = "multi_unit"
           targetLevel == getLevelFromUnitType(queryAnalysis[1].targetUnitType)
           reqs == IF multiUnit
                   THEN GridFetchRequests(targetLevel)
                   ELSE <<getUnitData(selectedUnitId[1], selectedVarIds,
                                      targetYears)>>
       IN /\ isProcessing' = TRUE
          /\ pg' = [pc |-> IF multiUnit THEN "awaitAll" ELSE "awaitUnit",
                    varIds |-> selectedVarIds,
                    slots |-> [k \in 1..Len(reqs) |-> PendingSlot]]
          /\ inFlight' = inFlight \cup
                {[owner |-> "staged", slot |-> k, req |-> reqs[k]] :
                    k \in 1..Len(reqs)}
          /\ calls' = calls \o reqs
    /\ issued' = issued + 1
    /\ UNCHANGED <<remote, wizardVars, data, viewMode, searchMode,
                   resultContext, lastAlert, wc, answered, outOfOrder,
                   agentVars, dataQuery, browserVars, gatewayVars, displayVars, flowVars, stepVars,
                   stage, queryAnalysis, candidateUnits, selectedUnitId,
                   candidateVars, selectedVarIds, targetYears>>

\* { varId, data: res?.results } for every settled request.
GridResults(varIds, slots) ==
    [k \in 1..Len(slots) |-> [variable |-> [id |-> varIds[k]],
                              data |-> slots[k].data]]

\* A by-variable request of the staged fetch is answered.
GridVariableDataArrives ==
    \E r \in inFlight :
      /\ r.owner = "staged"
      /\ r.req.op = "getVariableData"
      /\ \E results \in ByVariableResults(r.req.variableId, r.req.year) :
           LET slots == [pg.slots EXCEPT ![r.slot] = OkSlot(results)]
               allOk == \A k \in 1..Len(slots) : slots[k].st = "ok"
               unifiedData == UnifiedData(GridResults(pg.varIds, slots))
           IN /\ inFlight' = inFlight \ {r}
              /\ IF pg.pc # "awaitAll"
                 THEN UNCHANGED <<pg, data, stage, lastAlert, isProcessing>>
                 ELSE IF ~allOk
                 THEN /\ pg' = [pg EXCEPT !.slots = slots]
                      /\ UNCHANGED <<data, stage, lastAlert, isProcessing>>
                 ELSE /\ pg' = [pg EXCEPT !.pc = "done", !.slots = slots]
                      /\ isProcessing' = FALSE
                      /\ IF Len(unifiedData) > 0
                         THEN /\ data' = unifiedData
                              /\ stage' = "GRID_PREVIEW"
                              /\ UNCHANGED lastAlert
                         ELSE /\ lastAlert' = "No child units found with data."
                              /\ UNCHANGED <<data, stage>>
      /\ UNCHANGED <<remote, wizardVars, viewMode, searchMode, resultContext,
                     wc, calls, answered, outOfOrder, agentVars, issued,
                     dataQuery, browserVars, gatewayVars, displayVars, flowVars, stepVars, queryAnalysis,
                     candidateUnits, selectedUnitId, candidateVars,
                     selectedVarIds, targetYears>>

\* A request of the staged fetch fails: catch logs the step, finally clears
\* isProcessing; sibling requests stay in flight.
GridRequestFails ==
    \E r \in inFlight :
      /\ r.owner = "staged"
      /\ inFlight' = inFlight \ {r}
      /\ IF pg.pc \in {"awaitAll", "awaitUnit"}
         THEN /\ pg' = [pg EXCEPT !.pc = "done", !.slots[r.slot] = FailedSlot]
              /\ isProcessing' = FALSE
         ELSE UNCHANGED <<pg, isProcessing>>
      /\ UNCHANGED <<remote, wizardVars, data, viewMode, searchMode,
                     resultContext, lastAlert, wc, calls, answered, outOfOrder,
                     agentVars, issued, dataQuery, browserVars, gatewayVars,
                     displayVars, flowVars, stepVars, stage, queryAnalysis, candidateUnits,
                     selectedUnitId, candidateVars, selectedVarIds, targetYears>>

\* The by-unit request of the staged single-unit strategy is answered.
GridUnitDataArrives ==
    \E r \in inFlight :
      /\ r.owner = "staged"
      /\ r.req.op = "getUnitData"
      /\ pg.pc = "awaitUnit"
      /\ \E results \in ByUnitResults(r.req.unitId, r.req.variableIds, r.req.year) :
           /\ inFlight' = inFlight \ {r}
           /\ pg' = [pg EXCEPT !.pc = "done", !.slots = <<OkSlot(results)>>]
           /\ isProcessing' = FALSE
           /\ IF results # None /\ Len(results[1]) > 0
              THEN /\ data' = results[1]
                   /\ stage' = "GRID_PREVIEW"
                   /\ UNCHANGED lastAlert
              ELSE /\ lastAlert' = "No data found for these variables."
                   /\ UNCHANGED <<data, stage>>
      /\ UNCHANGED <<remote, wizardVars, viewMode, searchMode, resultContext,
                     wc, calls, answered, outOfOrder, agentVars, issued,
                     dataQuery, browserVars, gatewayVars, displayVars, flowVars, stepVars, queryAnalysis,
                     candidateUnits, selectedUnitId, candidateVars,
                     selectedVarIds, targetYears>>

(***************************************************************************)
(* Home, staged revision: handleSearch, handleSearchMoreUnits,             *)
(* handleSearchMoreVars and handleFinalFetch.                              *)
(***************************************************************************)
\* rankedVars.slice(0, 3).map(v => v.id)
TopThree(vs) == [k \in 1..(IF Len(vs) < 3 THEN Len(vs) ELSE 3) |-> vs[k].id]

IdleSearchFrame ==
    [pc |-> "idle", result |-> None, searchLevel |-> 0, initialVars |-> <<>>]

\* The search-more invocations awaiting their request: how many of
\* handleSearchMoreUnits, and the searchLevel of each handleSearchMoreVars.
NoneInFlight == [units |-> 0, vars |-> <<>>]

\* What analyzeQuery resolves to: an analysis, or the model's "error" intent.
ErrorAnalysis ==
    [intent |-> "error", scope |-> "single_unit", targetUnitType |-> None]

\* The analyses explored: the query names one unit, or the communes of one.
SearchAnalyses ==
    {StagedAnalysis("single_unit", None),
     StagedAnalysis("multi_unit", Some("gmina"))}

\* result.years of the analyses explored (empty: the field is absent).
AnalysisYears == {<<>>, <<2022>>}

\* What gusClient.searchUnits answers.
UnitSearchResults ==
    {<<>>, <<Unit("W1", 2)>>, <<Unit("P1", 5), Unit("W1", 2)>>}

\* What gusClient.searchVariables answers.
VariableSearchResults == {<<>>, <<Variable(1), Variable(2)>>}

\* reRankVariables: the candidates the model kept, in candidate order, or
\* the leading candidates when it kept none or failed.
Rankings(candidates) ==
    {SelectSeq(candidates, LAMBDA v : v.id \in keep) :
        keep \in SUBSET {candidates[k].id : k \in 1..Len(candidates)}}
    \ {<<>>}

\* [...prev, ...uniqueNew] with uniqueNew the items whose id prev lacks.
MergeUnique(prev, new) ==
    prev \o SelectSeq(new, LAMBDA x :
                \A k \in 1..Len(prev) : prev[k].id # x.id)

\* handleSearch without its setStage('INIT').
handleSearchKeepsStage ==
    /\ ~isProcessing
    /\ hs.pc \in {"idle", "done"}
    /\ isProcessing' = TRUE
    /\ data' = <<>>
    /\ candidateUnits' = <<>>
    /\ candidateVars' = <<>>
    /\ selectedUnitId' = None
    /\ selectedVarIds' = <<>>
    /\ hs' = [IdleSearchFrame EXCEPT !.pc = "awaitAnalysis"]
    /\ UNCHANGED <<remote, wizardVars, viewMode, searchMode, resultContext,
                   lastAlert, runVars, agentVars, issued, dataQuery,
                   browserVars, gatewayVars, displayVars, stepVars, stage,
                   queryAnalysis, targetYears, pg, more>>

\* The submit button of SearchForm is disabled while isLoading; one
\* handleSearch is followed at a time.
handleSearch ==
    /\ ~isProcessing
    /\ hs.pc \in {"idle", "done"}
    /\ isProcessing' = TRUE
    /\ stage' = "INIT"
    /\ data' = <<>>
    /\ candidateUnits' = <<>>
    /\ candidateVars' = <<>>
    /\ selectedUnitId' = None
    /\ selectedVarIds' = <<>>
    /\ hs' = [IdleSearchFrame EXCEPT !.pc = "awaitAnalysis"]
    /\ UNCHANGED <<remote, wizardVars, viewMode, searchMode, resultContext,
                   lastAlert, runVars, agentVars, issued, dataQuery,
                   browserVars, gatewayVars, displayVars, stepVars,
                   queryAnalysis, targetYears, pg, more>>

\* analyzeQuery resolves.
SearchAnalysisArrives ==
    /\ hs.pc = "awaitAnalysis"
    /\ \E result \in SearchAnalyses \cup {ErrorAnalysis}, years \in AnalysisYears :
         IF result.intent = "error"
         THEN /\ hs' = [hs EXCEPT !.pc = "done"]
              /\ isProcessing' = FALSE
              /\ UNCHANGED <<queryAnalysis, targetYears>>
         ELSE /\ queryAnalysis' = Some(result)
              /\ targetYears' = IF Len(years) > 0 THEN years ELSE targetYears
              /\ hs' = [hs EXCEPT !.pc = "awaitUnits", !.result = Some(result)]
              /\ UNCHANGED isProcessing
    /\ UNCHANGED <<remote, wizardVars, data, viewMode, searchMode,
                   resultContext, lastAlert, runVars, agentVars, issued,
                   dataQuery, browserVars, gatewayVars, displayVars, stepVars,
                   stage, candidateUnits, selectedUnitId, candidateVars,
                   selectedVarIds, pg, more>>

\* gusClient.searchUnits(location) resolves.
SearchUnitsArrive ==
    /\ hs.pc = "awaitUnits"
    /\ \E units \in UnitSearchResults :
         IF Len(units) = 0
         THEN /\ hs' = [hs EXCEPT !.pc = "done"]
              /\ isProcessing' = FALSE
              /\ UNCHANGED <<candidateUnits, selectedUnitId>>
         ELSE LET bestUnit == units[1]
                  result == hs.result[1]
                  searchLevel ==
                      IF result.scope = "multi_unit"
                      THEN getLevelFromUnitType(result.targetUnitType)
                      ELSE bestUnit.level
              IN /\ candidateUnits' = units
                 /\ selectedUnitId' = Some(bestUnit.id)
                 /\ hs' = [hs EXCEPT !.pc = "awaitVars",
                                     !.searchLevel = searchLevel]
                 /\ UNCHANGED isProcessing
    /\ UNCHANGED <<remote, wizardVars, data, viewMode, searchMode,
                   resultContext, lastAlert, runVars, agentVars, issued,
                   dataQuery, browserVars, gatewayVars, displayVars, stepVars,
                   stage, queryAnalysis, candidateVars, selectedVarIds,
                   targetYears, pg, more>>

\* gusClient.searchVariables(searchTerms, searchLevel) resolves.
SearchVariablesArrive ==
    /\ hs.pc = "awaitVars"
    /\ \E initialVars \in VariableSearchResults :
         IF Len(initialVars) = 0
         THEN /\ candidateVars' = <<>>
              /\ stage' = "CONFIGURATION"
              /\ hs' = [hs EXCEPT !.pc = "done"]
              /\ isProcessing' = FALSE
         ELSE /\ hs' = [hs EXCEPT !.pc = "awaitRank",
                                  !.initialVars = initialVars]
              /\ UNCHANGED <<candidateVars, stage, isProcessing>>
    /\ UNCHANGED <<remote, wizardVars, data, viewMode, searchMode,
                   resultContext, lastAlert, runVars, agentVars, issued,
                   dataQuery, browserVars, gatewayVars, displayVars, stepVars,
                   queryAnalysis, candidateUnits, selectedUnitId,
                   selectedVarIds, targetYears, pg, more>>

\* aiProcessor.reRankVariables(query, initialVars) resolves.
SearchRankArrives ==
    /\ hs.pc = "awaitRank"
    /\ \E rankedVars \in Rankings(hs.initialVars) :
         /\ candidateVars' = rankedVars
         /\ selectedVarIds' = TopThree(rankedVars)
    /\ stage' = "CONFIGURATION"
    /\ hs' = [hs EXCEPT !.pc = "done"]
    /\ isProcessing' = FALSE
    /\ UNCHANGED <<remote, wizardVars, data, viewMode, searchMode,
                   resultContext, lastAlert, runVars, agentVars, issued,
                   dataQuery, browserVars, gatewayVars, displayVars, stepVars,
                   queryAnalysis, candidateUnits, selectedUnitId, targetYears,
                   pg, more>>

\* handleSearch with its finally block removed.
SearchRequestFailsNoFinally ==
    /\ hs.pc \in {"awaitUnits", "awaitVars"}
    /\ hs' = [hs EXCEPT !.pc = "done"]
    /\ UNCHANGED <<remote, wizardVars, homeVars, runVars, agentVars, issued,
                   dataQuery, browserVars, gatewayVars, displayVars, stepVars,
                   stagedVars, more>>

\* A request of handleSearch to the gateway rejects: catch, then finally.
SearchRequestFails ==
    /\ hs.pc \in {"awaitUnits", "awaitVars"}
    /\ hs' = [hs EXCEPT !.pc = "done"]
    /\ isProcessing' = FALSE
    /\ UNCHANGED <<remote, wizardVars, data, viewMode, searchMode,
                   resultContext, lastAlert, runVars, agentVars, issued,
                   dataQuery, browserVars, gatewayVars, displayVars, stepVars,
                   stagedVars, more>>

\* The search-more controls belong to the configuration panel; the handler
\* returns at once on a blank input.
handleSearchMoreUnits ==
    /\ stage = "CONFIGURATION"
    /\ more.units < MaxMore
    /\ isProcessing' = TRUE
    /\ more' = [more EXCEPT !.units = @ + 1]
    /\ UNCHANGED <<remote, wizardVars, data, viewMode, searchMode,
                   resultContext, lastAlert, runVars, agentVars, issued,
                   dataQuery, browserVars, gatewayVars, displayVars, stepVars,
                   stagedVars, hs>>

\* Its request settles: the new units are merged on success; finally
\* clears the flag either way.
MoreUnitsSettle ==
    /\ more.units > 0
    /\ more' = [more EXCEPT !.units = @ - 1]
    /\ isProcessing' = FALSE
    /\ \/ \E newUnits \in UnitSearchResults :
            candidateUnits' = MergeUnique(candidateUnits, newUnits)
       \/ UNCHANGED candidateUnits
    /\ UNCHANGED <<remote, wizardVars, data, viewMode, searchMode,
                   resultContext, lastAlert, runVars, agentVars, issued,
                   dataQuery, browserVars, gatewayVars, displayVars, stepVars,
                   stage, queryAnalysis, selectedUnitId, candidateVars,
                   selectedVarIds, targetYears, pg, hs>>

\* The text typed into the variable search box.
VarSearchInput == "ludnosc"

\* candidateUnits.find(u => u.id === selectedUnitId)?.level
SelectedUnitLevel ==
    LET found == {k \in 1..Len(candidateUnits) :
                     Some(candidateUnits[k].id) = selectedUnitId}
    IN IF found = {} THEN None
       ELSE Some(candidateUnits[CHOOSE k \in found :
                                    \A j \in found : k <= j].level)

handleSearchMoreVars ==
    /\ stage = "CONFIGURATION"
    /\ Len(more.vars) < MaxMore
    /\ isProcessing' = TRUE
    /\ LET searchLevel ==
               IF queryAnalysis # None /\ queryAnalysis[1].scope = "multi_unit"
               THEN Some(getLevelFromUnitType(queryAnalysis[1].targetUnitType))
               ELSE SelectedUnitLevel
       IN more' = [more EXCEPT !.vars = Append(@, searchLevel)]
    /\ UNCHANGED <<remote, wizardVars, data, viewMode, searchMode,
                   resultContext, lastAlert, runVars, agentVars, issued,
                   dataQuery, browserVars, gatewayVars, displayVars, stepVars,
                   stagedVars, hs>>

\* The alert of handleSearchMoreVars for an empty answer.
NoVariablesAlert(searchLevel) ==
    IF searchLevel # None
    THEN "No variables found for \"" \o VarSearchInput \o "\" at level "
         \o ToString(searchLevel[1]) \o "."
    ELSE "No variables found."

\* One of its requests settles.
MoreVarsSettle ==
    \E i \in 1..Len(more.vars) :
      /\ more' = [more EXCEPT !.vars = [k \in 1..(Len(@) - 1) |->
                                           IF k < i THEN @[k] ELSE @[k + 1]]]
      /\ isProcessing' = FALSE
      /\ \/ \E newVars \in VariableSearchResults :
              /\ lastAlert' = IF Len(newVars) = 0
                              THEN NoVariablesAlert(more.vars[i])
                              ELSE lastAlert
              /\ candidateVars' = MergeUnique(candidateVars, newVars)
         \/ UNCHANGED <<candidateVars, lastAlert>>
      /\ UNCHANGED <<remote, wizardVars, data, viewMode, searchMode,
                     resultContext, runVars, agentVars, issued, dataQuery,
                     browserVars, gatewayVars, displayVars, stepVars, stage,
                     queryAnalysis, candidateUnits, selectedUnitId,
                     selectedVarIds, targetYears, pg, hs>>

\* The Finish Workflow button of DataDisplay, rendered with the grid.
handleFinalFetch ==
    /\ stage \in {"GRID_PREVIEW", "DONE"}
    /\ Len(data) > 0
    /\ ~isProcessing
    /\ stage # "DONE"    \* a click at DONE changes nothing
    /\ stage' = "DONE"
    /\ UNCHANGED <<remote, wizardVars, homeVars, runVars, agentVars, issued,
                   dataQuery, browserVars, gatewayVars, displayVars, flowVars,
                   stepVars, queryAnalysis, candidateUnits, selectedUnitId,
                   candidateVars, selectedVarIds, targetYears, pg>>

(***************************************************************************)
(* GusClient.fetch (src/services/gus-client.ts) at the level of HTTP, and  *)
(* the server actions' safeAction wrapper (src/app/actions.ts).            *)
(***************************************************************************)
\* The gateway operations invoked in the exploration.
GatewayRequests ==
    {getVariableData(1, Some(5), <<2022, 2023>>, Some("W1")),
     getUnitData("W1", <<1, 2>>, <<2022>>),
     getUnits(2, None),
     searchUnits("nW1")}

\* `/data/by-variable/${variableId}` and the other endpoints.
Endpoint(req) ==
    CASE req.op = "getVariableData" ->
            "/data/by-variable/" \o ToString(req.variableId)
      [] req.op = "getUnitData" -> "/data/by-unit/" \o req.unitId
      [] req.op = "getUnits" -> "/units"
      [] req.op = "searchUnits" -> "/units/search"

\* One searchParams entry per element of an array value.
ArrayParam(key, values) ==
    [k \in 1..Len(values) |-> <<key, ToString(values[k])>>]

\* The params object of each operation, in insertion order.
Params(req) ==
    CASE req.op = "getVariableData" ->
            <<<<"unit-level", ToString(req.unitLevel)>>>>
            \o ArrayParam("year", req.year)
            \o <<<<"page-size", "100">>>>
            \o (IF req.parentId # None
                THEN <<<<"unit-parent-id", req.parentId[1]>>>> ELSE <<>>)
      [] req.op = "getUnitData" ->
            ArrayParam("var-id", req.variableIds)
            \o ArrayParam("year", req.year)
            \o <<<<"page-size", "50">>>>
      [] req.op = "getUnits" ->
            <<<<"level", ToString(req.level)>>, <<"page-size", "100">>>>
            \o (IF req.parentId # None
                THEN <<<<"parent-id", req.parentId[1]>>>> ELSE <<>>)
      [] req.op = "searchUnits" ->
            <<<<"name", req.name>>, <<"page-size", "10">>>>

\* The keys a GusClient may be constructed with: none (the constructor
\* keeps the default "") or the key of the environment.
ApiKeys == {"", "key-1"}

\* The client-id header attached whatever the key is.
ClientIdHeaderAlways(apiKey) == <<<<"X-ClientId", apiKey>>>>

\* if (this.apiKey) headers["X-ClientId"] = this.apiKey
ClientIdHeader(apiKey) ==
    IF apiKey # "" THEN <<<<"X-ClientId", apiKey>>>> ELSE <<>>

\* The headers object of fetch, in insertion order.
Headers(apiKey) ==
    <<<<"Content-Type", "application/json">>, <<"Accept", "application/json">>,
      <<"User-Agent", "GusSdpApp/1.0 (Next.js Server Actions)">>>>
    \o ClientIdHeader(apiKey)

\* The request fetch(url, {headers}) sends for the i-th operation.
HttpRequest(i, req, apiKey) ==
    [op |-> i,
     url |-> Endpoint(req),
     searchParams |-> <<<<"lang", "pl">>, <<"format", "json">>>> \o Params(req),
     headers |-> Headers(apiKey)]

\* The reason phrase of a status line; HTTP/2 responses carry none.
StatusTexts(status) ==
    {""} \cup (CASE status = 200 -> {"OK"}
                 [] status = 404 -> {"Not Found"}
                 [] status = 500 -> {"Internal Server Error"})

\* What the remote puts in the body of an error response.
RemoteMessages == {"Nie znaleziono", "Przekroczono limit"}

\* A page of results; links.next names a further page when there is one.
ResultPages ==
    {[results |-> <<>>, page |-> 0, links |-> [next |-> None]],
     [results |-> <<"r1">>, page |-> 0, links |-> [next |-> Some("page=1")]]}

\* Every response the remote may give to an HTTP request.
HttpResponses ==
    {[status |-> 200, statusText |-> t, body |-> b] :
        t \in StatusTexts(200), b \in ResultPages}
    \cup UNION {{[status |-> s, statusText |-> t, body |-> [errors |-> m]] :
                    t \in StatusTexts(s), m \in RemoteMessages} :
                 s \in {404, 500}}

\* response.ok
Ok(response) == response.status \in 200..299

\* new Error(`Failed to fetch data from GUS API: ${response.statusText}`)
FetchError(response) ==
    [message |-> "Failed to fetch data from GUS API: " \o response.statusText]

\* safeAction's catch: new Error(error.message || "An unexpected ...").
safeAction(err) ==
    [message |-> IF err.message = ""
                 THEN "An unexpected server error occurred"
                 ELSE err.message]

\* The error the caller of an operation catches.
Raised(frame, err) == IF frame.viaAction THEN safeAction(err) ELSE err

\* The requests sent once more after a response that was not a success.
FollowUpRequestsRetry(i, req, response) ==
    IF Ok(response) THEN <<>> ELSE <<HttpRequest(i, req, ops[i].apiKey)>>

\* What fetch sends after it has the response: it neither repeats the
\* request nor follows links.next.
FollowUpRequests(i, req, response) == <<>>

\* An operation is invoked, directly or through its server action, on a
\* client constructed with apiKey; fetch builds the URL and the headers
\* and sends one request.
GusClientFetch(req, viaAction, apiKey) ==
    /\ Len(ops) < MaxOps
    /\ ops' = Append(ops, [req |-> req, viaAction |-> viaAction,
                           apiKey |-> apiKey,
                           pc |-> "awaitFetch", response |-> None,
                           result |-> None, error |-> None])
    /\ http' = Append(http, HttpRequest(Len(ops) + 1, req, apiKey))
    /\ UNCHANGED <<remote, wizardVars, homeVars, runVars, agentVars, issued,
                   dataQuery, browserVars, stagedVars, displayVars, flowVars, stepVars>>

\* The response arrives: response.json() is returned when response.ok,
\* an Error is thrown otherwise.
HttpResponds ==
    \E i \in 1..Len(ops) : \E response \in HttpResponses :
      /\ ops[i].pc = "awaitFetch"
      /\ ops' = [ops EXCEPT ![i] =
                    IF Ok(response)
                    THEN [@ EXCEPT !.pc = "returned",
                                   !.response = Some(response),
                                   !.result = Some(response.body)]
                    ELSE [@ EXCEPT !.pc = "thrown",
                                   !.response = Some(response),
                                   !.error = Some(Raised(ops[i], FetchError(response)))]]
      /\ http' = http \o FollowUpRequests(i, ops[i].req, response)
      /\ UNCHANGED <<remote, wizardVars, homeVars, runVars, agentVars, issued,
                     dataQuery, browserVars, stagedVars, displayVars, flowVars, stepVars>>

\* The request never gets a response: fetch itself rejects.
FetchRejects ==
    \E i \in 1..Len(ops) :
      /\ ops[i].pc = "awaitFetch"
      /\ ops' = [ops EXCEPT ![i] =
                    [@ EXCEPT !.pc = "thrown",
                              !.error = Some(Raised(ops[i],
                                                    [message |-> "fetch failed"]))]]
      /\ UNCHANGED <<remote, wizardVars, homeVars, runVars, agentVars, issued,
                     dataQuery, browserVars, stagedVars, displayVars, flowVars, stepVars, http>>

(***************************************************************************)
(* DataDisplay (src/components/DataDisplay.tsx) and generateGusXml         *)
(* (src/services/xml-generator.ts): the CSV and XML exports.               *)
(***************************************************************************)
Orientations == {"vars-cols", "years-cols"}

\* Array.prototype.join
RECURSIVE Join(_, _)
Join(strs, sep) ==
    IF strs = <<>> THEN ""
    ELSE IF Len(strs) = 1 THEN strs[1]
    ELSE strs[1] \o sep \o Join(Tail(strs), sep)

RECURSIVE Flatten(_)
Flatten(seqs) == IF seqs = <<>> THEN <<>> ELSE Head(seqs) \o Flatten(Tail(seqs))

\* The elements of s in first-seen order, each once (Array.from(new Set)).
RECURSIVE Distinct(_, _)
Distinct(s, seen) ==
    IF s = <<>> THEN <<>>
    ELSE IF Head(s) \in seen THEN Distinct(Tail(s), seen)
    ELSE <<Head(s)>> \o Distinct(Tail(s), seen \cup {Head(s)})

\* Array.from(years).sort((a, b) => a - b)
RECURSIVE SortAscending(_)
SortAscending(S) ==
    IF S = {} THEN <<>>
    ELSE LET m == CHOOSE x \in S : \A y \in S : x <= y
         IN <<m>> \o SortAscending(S \ {m})

\* analysis?.scope === 'multi_unit'
isMultiUnit(a) == a # None /\ a[1].scope = "multi_unit"

\* Both branches collect val.year over every entry's values.
getAllYears(d) ==
    SortAscending(UNION {{d[i].values[k].year : k \in 1..Len(d[i].values)} :
                            i \in 1..Len(d)})

\* The variable ids the units' records carry, in first-seen order.
UniqueVars(d) ==
    Distinct(Flatten([i \in 1..Len(d) |->
                        [k \in 1..Len(d[i].values) |-> d[i].values[k].variableId]]),
             {})

\* Array.prototype.find: the first element that satisfies the test.
Find(s, Test(_)) ==
    IF \E k \in 1..Len(s) : Test(s[k])
    THEN Some(s[CHOOSE k \in 1..Len(s) :
                    Test(s[k]) /\ \A j \in 1..(k - 1) : ~Test(s[j])])
    ELSE None

\* `"${x}"`
Quoted(text) == "\"" \o text \o "\""

\* v.name in a template: entries of a by-unit response carry no name.
NameText(v) == IF "name" \in DOMAIN v THEN v.name ELSE "undefined"

\* found?.n1 || vid
VarLabel(cands, vid) ==
    LET found == Find(cands, LAMBDA c : c.id = vid)
    IN IF found # None /\ found[1].n1 # "" THEN found[1].n1 ELSE ToString(vid)

\* valObj ? (valObj.value ?? valObj.val ?? "") : ""
CellText(valObj) ==
    IF valObj = None THEN ""
    ELSE IF "value" \in DOMAIN valObj[1] THEN ToString(valObj[1].value)
    ELSE IF "val" \in DOMAIN valObj[1] THEN ToString(valObj[1].val)
    ELSE ""

\* unit.values?.find(v => v.variableId === vid && v.year === year)
UnitCell(unitEntry, vid, year) ==
    Find(unitEntry.values, LAMBDA v : v.variableId = vid /\ v.year = year)

\* v.values?.find(val => val.year === year)
YearCell(v, year) == Find(v.values, LAMBDA val : val.year = year)

MultiHeader(d, cands) ==
    <<"UnitId", "UnitName", "Year">>
    \o [k \in 1..Len(UniqueVars(d)) |-> Quoted(VarLabel(cands, UniqueVars(d)[k]))]

MultiRow(d, unitEntry, year) ==
    <<unitEntry.id, Quoted(unitEntry.name), ToString(year)>>
    \o [k \in 1..Len(UniqueVars(d)) |->
            CellText(UnitCell(unitEntry, UniqueVars(d)[k], year))]

\* hasData: some variable has a record of the unit for the year.
HasData(d, unitEntry, year) ==
    \E k \in 1..Len(UniqueVars(d)) :
        UnitCell(unitEntry, UniqueVars(d)[k], year) # None

\* The rows pushed for one unit: one per year for which hasData is set.
UnitRows(d, unitEntry) ==
    LET years == getAllYears(d)
        kept == SelectSeq(years, LAMBDA y : HasData(d, unitEntry, y))
    IN [k \in 1..Len(kept) |-> MultiRow(d, unitEntry, kept[k])]

MultiRows(d) == Flatten([i \in 1..Len(d) |-> UnitRows(d, d[i])])

VarsColsHeader(d) == <<"Year">> \o [i \in 1..Len(d) |-> Quoted(NameText(d[i]))]

VarsColsRows(d) ==
    LET years == getAllYears(d)
    IN [k \in 1..Len(years) |->
            <<ToString(years[k])>>
            \o [i \in 1..Len(d) |-> CellText(YearCell(d[i], years[k]))]]

YearsColsHeader(d) ==
    <<"Variable">>
    \o [k \in 1..Len(getAllYears(d)) |-> ToString(getAllYears(d)[k])]

YearsColsRows(d) ==
    LET years == getAllYears(d)
    IN [i \in 1..Len(d) |->
            <<Quoted(NameText(d[i]))>>
            \o [k \in 1..Len(years) |-> CellText(YearCell(d[i], years[k]))]]

\* The orientation of the first export kept for the later ones.
ExportOrientationFirst(current) ==
    IF downloads[current] = None
       /\ \E o \in Orientations : downloads[o] # None
    THEN CHOOSE o \in Orientations : downloads[o] # None
    ELSE current

\* The orientation an export follows: the one selected now.
ExportOrientation(current) == current

\* The header and the data rows of the export, as fields.
CsvTable(d, context, o) ==
    IF isMultiUnit(Some(context.analysis))
    THEN [header |-> MultiHeader(d, context.variables), rows |-> MultiRows(d)]
    ELSE IF o = "vars-cols"
    THEN [header |-> VarsColsHeader(d), rows |-> VarsColsRows(d)]
    ELSE [header |-> YearsColsHeader(d), rows |-> YearsColsRows(d)]

\* csvContent = header + "\n" + rows.join("\n"), every line joined by ",".
CsvContent(table) ==
    Join(table.header, ",") \o "\n"
    \o Join([k \in 1..Len(table.rows) |-> Join(table.rows[k], ",")], "\n")

\* DataDisplay is rendered in the grid view once a result context is set.
DisplayRendered == viewMode = "GRID" /\ resultContext # None

\* The orientation buttons.
setOrientation(o) ==
    /\ Clickable
    /\ DisplayRendered
    /\ orientation # o
    /\ orientation' = o
    /\ UNCHANGED <<remote, wizardVars, homeVars, runVars, agentVars, issued,
                   dataQuery, browserVars, stagedVars, gatewayVars, flowVars,
                   stepVars, xmlContent, downloads, exports, now>>

\* The CSV button: nothing is downloaded for an empty dataset.
downloadCSV ==
    /\ Clickable
    /\ DisplayRendered
    /\ exports < MaxExports
    /\ exports' = exports + 1
    /\ IF Len(data) = 0
       THEN UNCHANGED downloads
       ELSE LET o == ExportOrientation(orientation)
                table == CsvTable(data, resultContext[1], o)
            IN downloads' = [downloads EXCEPT ![orientation] =
                                Some([header |-> table.header,
                                      rows |-> table.rows,
                                      content |-> CsvContent(table)])]
    /\ UNCHANGED <<remote, wizardVars, homeVars, runVars, agentVars, issued,
                   dataQuery, browserVars, stagedVars, gatewayVars, flowVars,
                   stepVars, orientation, xmlContent, now>>

\* The variables block input: ids found in the data (multi-unit) or the
\* entries themselves (single-unit), with the names the template resolves.
VariablesList(d, context) ==
    IF isMultiUnit(Some(context.analysis))
    THEN [k \in 1..Len(UniqueVars(d)) |->
            LET found == Find(context.variables,
                              LAMBDA c : c.id = UniqueVars(d)[k])
            IN [id |-> UniqueVars(d)[k],
                n1 |-> IF found # None /\ found[1].n1 # ""
                       THEN found[1].n1
                       ELSE "Variable " \o ToString(UniqueVars(d)[k]),
                measureUnit |-> "-"]]
    ELSE [i \in 1..Len(d) |->
            [id |-> d[i].id,
             n1 |-> IF "name" \in DOMAIN d[i] THEN d[i].name ELSE "",
             measureUnit |-> "-"]]

\* The argument DataDisplay passes to generateGusXml.
XmlData(d, context) ==
    [scope |-> IF isMultiUnit(Some(context.analysis)) THEN "multi_unit"
                                                      ELSE "single_unit",
     unit |-> [id |-> IF isMultiUnit(Some(context.analysis))
                      THEN (IF context.analysis.location # ""
                            THEN context.analysis.location ELSE "Multiple")
                      ELSE "unknown",
               name |-> IF context.analysis.unit # "" THEN context.analysis.unit
                        ELSE IF context.analysis.location # ""
                        THEN context.analysis.location ELSE "Unknown Unit"],
     variables |-> VariablesList(d, context),
     results |-> d]

\* new Date().toISOString() for the clock readings in use.
toISOString(t) == "2026-01-01T00:00:0" \o ToString(t) \o ".000Z"

\* A unit name that holds each of < > & ' ".
MarkupName == "<b>R&D</b> 'x' \"y\""

\* unsafe.replace(/[<>&'"]/g, ...): of the texts in use only MarkupName
\* holds one of the five characters; a falsy text gives "".
escapeXml(unsafe) ==
    IF unsafe = "" THEN ""
    ELSE IF unsafe = MarkupName
    THEN "&lt;b&gt;R&amp;D&lt;/b&gt; &apos;x&apos; &quot;y&quot;"
    ELSE unsafe

VariableBlock(v) ==
    "    <Variable id=\"" \o ToString(v.id) \o "\">\n"
    \o "      <Name>" \o escapeXml(v.n1) \o "</Name>\n"
    \o "      <MeasureUnit>" \o escapeXml(v.measureUnit) \o "</MeasureUnit>\n"
    \o "    </Variable>"

\* ${val.value} in the multi-unit branch: the records carry `val`.
ValueText(val) ==
    IF "value" \in DOMAIN val THEN ToString(val.value) ELSE "undefined"

\* val.value ?? val.val in the single-unit branch.
ValueOrValText(val) ==
    IF "value" \in DOMAIN val THEN ToString(val.value)
    ELSE IF "val" \in DOMAIN val THEN ToString(val.val)
    ELSE "undefined"

\* val.attrId ?? val["attr-id"]
AttrIdOf(val) ==
    IF "attrId" \in DOMAIN val THEN Some(val.attrId)
    ELSE IF "attr-id" \in DOMAIN val THEN Some(val["attr-id"])
    ELSE None

UnitRecord(val) ==
    "      <Record varId=\"" \o ToString(val.variableId) \o "\" year=\""
    \o ToString(val.year) \o "\">\n"
    \o "        <Value>" \o ValueText(val) \o "</Value>\n"
    \o (IF "attrId" \in DOMAIN val
        THEN "        <AttributeId>" \o ToString(val.attrId) \o "</AttributeId>\n"
        ELSE "")
    \o "      </Record>"

UnitBlock(unitEntry) ==
    "    <Unit id=\"" \o unitEntry.id \o "\" name=\""
    \o escapeXml(unitEntry.name) \o "\">\n"
    \o Join([k \in 1..Len(unitEntry.values) |-> UnitRecord(unitEntry.values[k])],
            "\n")
    \o "\n    </Unit>"

VariableRecord(varId, val) ==
    "    <Record varId=\"" \o ToString(varId) \o "\" year=\""
    \o ToString(val.year) \o "\">\n"
    \o "      <Value>" \o ValueOrValText(val) \o "</Value>\n"
    \o (IF AttrIdOf(val) # None
        THEN "      <AttributeId>" \o ToString(AttrIdOf(val)[1]) \o "</AttributeId>\n"
        ELSE "")
    \o "    </Record>"

VariableRecords(variableResult) ==
    Join([k \in 1..Len(variableResult.values) |->
            VariableRecord(variableResult.id, variableResult.values[k])], "\n")

ResultsBlock(xmlData) ==
    IF xmlData.scope = "multi_unit"
    THEN Join([i \in 1..Len(xmlData.results) |-> UnitBlock(xmlData.results[i])],
              "\n")
    ELSE Join([i \in 1..Len(xmlData.results) |->
                 VariableRecords(xmlData.results[i])], "\n")

\* The document generateGusXml returns when the clock reads t (the provider
\* name is written in ASCII).
generateGusXml(xmlData, t) ==
    "<?xml version=\"1.0\" encoding=\"UTF-8\"?>\n<GusData>\n  <Metadata>\n"
    \o "    <Scope>" \o xmlData.scope \o "</Scope>\n"
    \o "    <UnitId>" \o xmlData.unit.id \o "</UnitId>\n"
    \o "    <UnitName>" \o escapeXml(xmlData.unit.name) \o "</UnitName>\n"
    \o "    <LastUpdate>" \o toISOString(t) \o "</LastUpdate>\n"
    \o "    <Provider>GUS - BDL</Provider>\n  </Metadata>\n\n  <Variables>\n"
    \o Join([k \in 1..Len(xmlData.variables) |-> VariableBlock(xmlData.variables[k])],
            "\n")
    \o "\n  </Variables>\n\n  <Results>\n"
    \o ResultsBlock(xmlData)
    \o "\n  </Results>\n</GusData>"

\* The Record elements of the results block, in document order.
RecordTexts(xmlData) ==
    IF xmlData.scope = "multi_unit"
    THEN Flatten([i \in 1..Len(xmlData.results) |->
            [k \in 1..Len(xmlData.results[i].values) |->
                UnitRecord(xmlData.results[i].values[k])]])
    ELSE Flatten([i \in 1..Len(xmlData.results) |->
            [k \in 1..Len(xmlData.results[i].values) |->
                VariableRecord(xmlData.results[i].id,
                               xmlData.results[i].values[k])]])

\* Every piece of input text the templates interpolate, with the text the
\* document holds in its place.
PlacedTexts(xmlData) ==
    {[place |-> "Metadata/UnitId", text |-> xmlData.unit.id,
      written |-> xmlData.unit.id],
     [place |-> "Metadata/UnitName", text |-> xmlData.unit.name,
      written |-> escapeXml(xmlData.unit.name)]}
    \cup UNION {{[place |-> "Variable/Name", text |-> xmlData.variables[k].n1,
                  written |-> escapeXml(xmlData.variables[k].n1)],
                 [place |-> "Variable/MeasureUnit",
                  text |-> xmlData.variables[k].measureUnit,
                  written |-> escapeXml(xmlData.variables[k].measureUnit)]} :
                    k \in 1..Len(xmlData.variables)}
    \cup (IF xmlData.scope = "multi_unit"
          THEN UNION {{[place |-> "Unit/@id", text |-> xmlData.results[i].id,
                        written |-> xmlData.results[i].id],
                       [place |-> "Unit/@name", text |-> xmlData.results[i].name,
                        written |-> escapeXml(xmlData.results[i].name)]}
                      \cup {[place |-> "Record/Value",
                             text |-> ValueText(xmlData.results[i].values[k]),
                             written |-> ValueText(xmlData.results[i].values[k])] :
                               k \in 1..Len(xmlData.results[i].values)} :
                        i \in 1..Len(xmlData.results)}
          ELSE UNION {{[place |-> "Record/Value",
                        text |-> ValueOrValText(xmlData.results[i].values[k]),
                        written |-> ValueOrValText(xmlData.results[i].values[k])] :
                          k \in 1..Len(xmlData.results[i].values)} :
                        i \in 1..Len(xmlData.results)})

\* A render of DataDisplay in which the xmlContent memo is computed;
\* new Date() reads a clock that never runs backwards.
ComputeXmlContent ==
    /\ DisplayRendered
    /\ \E t \in now..MaxClock :
         /\ now' = t
         /\ xmlContent' = Some(IF Len(data) = 0 THEN ""
                               ELSE generateGusXml(XmlData(data, resultContext[1]), t))
    /\ UNCHANGED <<remote, wizardVars, homeVars, runVars, agentVars, issued,
                   dataQuery, browserVars, stagedVars, gatewayVars, flowVars,
                   stepVars, orientation, downloads, exports>>

(***************************************************************************)
(* Initial states of the components.                                       *)
(***************************************************************************)
\* Home as constructed, apart from searchMode.
HomeInit ==
    /\ isProcessing = FALSE
    /\ data = <<>>
    /\ viewMode = "WIZARD"
    /\ resultContext = None
    /\ lastAlert = "none"
    /\ wc = IdleFrame
    /\ inFlight = {}
    /\ calls = <<>>
    /\ answered = <<>>
    /\ outOfOrder = FALSE
    /\ issued = 0
    /\ dataQuery = 0

\* AgentSearch not rendered.
AgentOff ==
    /\ step = "IDLE"
    /\ analysisResult = None
    /\ confirmedVars = <<>>
    /\ error = None
    /\ ac = IdleAgentFrame

\* TerritoryBrowser and UnitSelectionStep not rendered.
BrowserOff ==
    /\ currentLevelList = <<>>
    /\ breadcrumbs = <<>>
    /\ isLoading = FALSE
    /\ pending = <<>>
    /\ selectedUnit = None
    /\ scopeLevel = None
    /\ listLevel = None

\* The staged Home not rendered.
StagedOff ==
    /\ stage = "INIT"
    /\ queryAnalysis = None
    /\ candidateUnits = <<>>
    /\ selectedUnitId = None
    /\ candidateVars = <<>>
    /\ selectedVarIds = <<>>
    /\ targetYears = <<2022, 2023>>
    /\ pg = IdleGridFrame

\* No gateway operation followed down to HTTP.
GatewayOff ==
    /\ ops = <<>>
    /\ http = <<>>

\* DataDisplay as constructed, before its first render.
DisplayInit ==
    /\ orientation = "vars-cols"
    /\ xmlContent = None
    /\ downloads = [o \in Orientations |-> None]
    /\ exports = 0
    /\ now = 0

\* No staged search handler started.
FlowOff ==
    /\ hs = IdleSearchFrame
    /\ more = NoneInFlight

\* SearchWizard at its third step, its state being what its first two
\* steps confirmed.
WizardConfirmed ==
    /\ wizardStep = 3
    /\ selected = variables
    /\ confirmed = [variables |-> variables, unit |-> Some(unit),
                    childLevel |-> childLevel]

\* No SearchWizard on the page (0: no step shown).
WizardOff ==
    /\ wizardStep = 0
    /\ selected = <<>>
    /\ confirmed = [variables |-> <<>>, unit |-> None, childLevel |-> None]

(***************************************************************************)
(* Spec: one run of handleWizardComplete on a Home in wizard mode whose    *)
(* wizard holds a confirmed selection, for every selection the wizard can  *)
(* confirm and every remote behaviour.                                     *)
(***************************************************************************)
Init ==
    /\ remote \in [subUnits : {SubUnitIds}, yearFilter : BOOLEAN,
                   mixesLevels : {FALSE}, gaps : {{}}, revises : {FALSE}]
    /\ variables \in VariableSelections(VarIds)
    /\ unit \in RootUnits
    /\ childLevel \in ChildLevelOptions(unit)
    /\ selectedYears \in YearChoices
    /\ searchMode = "WIZARD"
    /\ HomeInit
    /\ StagedOff
    /\ GatewayOff
    /\ DisplayInit
    /\ FlowOff
    /\ WizardConfirmed
    /\ AgentOff
    /\ BrowserOff

Next ==
    \/ handleWizardComplete
    \/ VariableDataArrives
    \/ VariableDataFails
    \/ UnitDataArrives
    \/ UnitDataFails

Spec == Init /\ [][Next]_vars

(***************************************************************************)
(* SpecFanOut: one multi-unit run over one variable more than the batch    *)
(* size, against a remote that lists no unit.                              *)
(***************************************************************************)
FanOutVars == BatchSize + 1

InitFanOut ==
    /\ remote = [subUnits |-> {}, yearFilter |-> TRUE, mixesLevels |-> FALSE,
                 gaps |-> {}, revises |-> FALSE]
    /\ variables = [k \in 1..FanOutVars |-> Variable(k)]
    /\ unit = Unit("W1", 2)
    /\ childLevel = Some(5)
    /\ selectedYears = <<2022>>
    /\ searchMode = "WIZARD"
    /\ HomeInit
    /\ StagedOff
    /\ GatewayOff
    /\ DisplayInit
    /\ FlowOff
    /\ WizardConfirmed
    /\ AgentOff
    /\ BrowserOff

NextFanOut ==
    \/ handleWizardComplete
    \/ VariableDataArrives
    \/ VariableDataFails

SpecFanOut == InitFanOut /\ [][NextFanOut]_vars

(***************************************************************************)
(* SpecStale: Home as constructed (agent mode) with AgentSearch waiting    *)
(* at its confirmation step; the user may confirm, switch modes and run    *)
(* the wizard while requests are in flight.                                *)
(***************************************************************************)
InitStale ==
    /\ remote = [subUnits |-> {"G1"}, yearFilter |-> TRUE, mixesLevels |-> FALSE,
                 gaps |-> {}, revises |-> FALSE]
    /\ variables = <<Variable(1)>>
    /\ unit = Unit("W1", 2)
    /\ childLevel \in {None, Some(5)}
    /\ selectedYears = <<2022>>
    /\ searchMode = "AGENT"
    /\ HomeInit
    /\ StagedOff
    /\ GatewayOff
    /\ DisplayInit
    /\ FlowOff
    /\ WizardConfirmed
    /\ step = "CONFIRMATION"
    /\ analysisResult \in {Some(a) : a \in AgentAnalyses}
    /\ confirmedVars \in {<<>>, <<Variable(1)>>}
    /\ error = None
    /\ ac = IdleAgentFrame
    /\ BrowserOff

NextStale ==
    \/ handleConfirm
    \/ AgentUnitsArrive
    \/ AgentDataArrives
    \/ AgentRequestFails
    \/ \E mode \in {"WIZARD", "AGENT"} : setSearchMode(mode)
    \/ NewSearch
    \/ handleWizardComplete
    \/ VariableDataArrives
    \/ VariableDataFails
    \/ UnitDataArrives
    \/ UnitDataFails

SpecStale == InitStale /\ [][NextStale]_vars

(***************************************************************************)
(* SpecBrowser: the territory browser of the wizard's second step, from    *)
(* its mount (the root listing is in flight).                              *)
(***************************************************************************)
InitBrowser ==
    /\ remote \in [subUnits : {{}}, yearFilter : {TRUE}, mixesLevels : BOOLEAN,
                   gaps : {{}}, revises : {FALSE}]
    /\ variables = <<Variable(1)>>
    /\ unit = Unit("W1", 2)
    /\ childLevel = None
    /\ selectedYears = <<2022>>
    /\ searchMode = "WIZARD"
    /\ HomeInit
    /\ StagedOff
    /\ GatewayOff
    /\ DisplayInit
    /\ FlowOff
    /\ WizardConfirmed
    /\ AgentOff
    /\ currentLevelList = <<>>
    /\ breadcrumbs = <<>>
    /\ isLoading = TRUE
    /\ pending = <<ListReq("root", 2, None, <<>>)>>
    /\ selectedUnit = None
    /\ scopeLevel = None
    /\ listLevel = None

NextBrowser ==
    \/ \E k \in 1..Len(currentLevelList) : handleUnitClick(currentLevelList[k])
    \/ \E index \in -1..(Len(breadcrumbs) - 1) : handleBreadcrumbClick(index)
    \/ handleBackUp
    \/ ListingArrives
    \/ ListingFails
    \/ \E level \in {None, Some(5), Some(6)} : setChildLevel(level)

SpecBrowser == InitBrowser /\ [][NextBrowser]_vars

(***************************************************************************)
(* SpecStaged: the staged Home at its configuration stage, as handleSearch *)
(* leaves it, for every analysis and every unit found.                     *)
(***************************************************************************)
InitStaged ==
    /\ remote = [subUnits |-> {"G1"}, yearFilter |-> TRUE, mixesLevels |-> FALSE,
                 gaps |-> {}, revises |-> FALSE]
    /\ variables = <<Variable(1)>>
    /\ unit = Unit("W1", 2)
    /\ childLevel = None
    /\ selectedYears = <<2022>>
    /\ searchMode = "WIZARD"
    /\ HomeInit
    /\ AgentOff
    /\ BrowserOff
    /\ GatewayOff
    /\ DisplayInit
    /\ FlowOff
    /\ WizardConfirmed
    /\ stage = "CONFIGURATION"
    /\ queryAnalysis \in {Some(a) : a \in StagedAnalyses}
    /\ candidateUnits \in {<<Unit("W1", 2)>>, <<Unit("P1", 5), Unit("W1", 2)>>}
    /\ selectedUnitId = Some(candidateUnits[1].id)
    /\ candidateVars \in {<<>>, <<Variable(1), Variable(2)>>}
    /\ selectedVarIds = TopThree(candidateVars)
    /\ targetYears \in {<<2022, 2023>>, <<2022>>}
    /\ pg = IdleGridFrame

NextStaged ==
    \/ \E k \in 1..Len(candidateUnits) : setSelectedUnitId(candidateUnits[k].id)
    \/ \E k \in 1..Len(candidateVars) : toggleVariable(candidateVars[k].id)
    \/ handleProceedToGrid
    \/ GridVariableDataArrives
    \/ GridUnitDataArrives
    \/ GridRequestFails

SpecStaged == InitStaged /\ [][NextStaged]_vars

(***************************************************************************)
(* SpecFlow: the staged Home from its construction: searches, the          *)
(* configuration stage with its search-more controls, the grid fetch and   *)
(* the final confirmation, in every interleaving.                          *)
(***************************************************************************)
InitFlow ==
    /\ remote = [subUnits |-> {"G1"}, yearFilter |-> TRUE, mixesLevels |-> FALSE,
                 gaps |-> {}, revises |-> FALSE]
    /\ variables = <<Variable(1)>>
    /\ unit = Unit("W1", 2)
    /\ childLevel = None
    /\ selectedYears = <<2022>>
    /\ searchMode = "WIZARD"
    /\ HomeInit
    /\ AgentOff
    /\ BrowserOff
    /\ GatewayOff
    /\ DisplayInit
    /\ FlowOff
    /\ WizardOff
    /\ StagedOff

NextFlow ==
    \/ handleSearch
    \/ SearchAnalysisArrives
    \/ SearchUnitsArrive
    \/ SearchVariablesArrive
    \/ SearchRankArrives
    \/ SearchRequestFails
    \/ handleSearchMoreUnits
    \/ MoreUnitsSettle
    \/ handleSearchMoreVars
    \/ MoreVarsSettle
    \/ \E k \in 1..Len(candidateUnits) : setSelectedUnitId(candidateUnits[k].id)
    \/ \E k \in 1..Len(candidateVars) : toggleVariable(candidateVars[k].id)
    \/ handleProceedToGrid
    \/ GridVariableDataArrives
    \/ GridUnitDataArrives
    \/ GridRequestFails
    \/ handleFinalFetch

SpecFlow == InitFlow /\ [][NextFlow]_vars

(***************************************************************************)
(* SpecProgress: either revision of Home, the staged one from its          *)
(* construction or the wizard one with a confirmed selection, running the  *)
(* handlers that raise isProcessing.                                       *)
(***************************************************************************)
\* The page is the staged revision of Home (it renders no SearchWizard).
StagedHome == wizardStep = 0

InitProgress == InitFlow \/ Init

NextProgress ==
    \/ StagedHome /\ handleSearch
    \/ StagedHome /\ SearchAnalysisArrives
    \/ StagedHome /\ SearchUnitsArrive
    \/ StagedHome /\ SearchVariablesArrive
    \/ StagedHome /\ SearchRankArrives
    \/ StagedHome /\ SearchRequestFails
    \/ StagedHome /\ handleSearchMoreUnits
    \/ StagedHome /\ MoreUnitsSettle
    \/ StagedHome /\ handleSearchMoreVars
    \/ StagedHome /\ MoreVarsSettle
    \/ StagedHome /\ \E k \in 1..Len(candidateUnits) :
                         setSelectedUnitId(candidateUnits[k].id)
    \/ StagedHome /\ \E k \in 1..Len(candidateVars) :
                         toggleVariable(candidateVars[k].id)
    \/ StagedHome /\ handleProceedToGrid
    \/ StagedHome /\ GridVariableDataArrives
    \/ StagedHome /\ GridUnitDataArrives
    \/ StagedHome /\ GridRequestFails
    \/ StagedHome /\ handleFinalFetch
    \/ ~StagedHome /\ handleWizardComplete
    \/ ~StagedHome /\ VariableDataArrives
    \/ ~StagedHome /\ VariableDataFails
    \/ ~StagedHome /\ UnitDataArrives
    \/ ~StagedHome /\ UnitDataFails

SpecProgress == InitProgress /\ [][NextProgress]_vars

\* Every request in flight completes or fails.
RequestSettles ==
    \/ StagedHome /\ SearchAnalysisArrives
    \/ StagedHome /\ SearchUnitsArrive
    \/ StagedHome /\ SearchVariablesArrive
    \/ StagedHome /\ SearchRankArrives
    \/ StagedHome /\ SearchRequestFails
    \/ StagedHome /\ MoreUnitsSettle
    \/ StagedHome /\ MoreVarsSettle
    \/ StagedHome /\ GridVariableDataArrives
    \/ StagedHome /\ GridUnitDataArrives
    \/ StagedHome /\ GridRequestFails
    \/ ~StagedHome /\ VariableDataArrives
    \/ ~StagedHome /\ VariableDataFails
    \/ ~StagedHome /\ UnitDataArrives
    \/ ~StagedHome /\ UnitDataFails

(***************************************************************************)
(* SpecWizard: Home in wizard mode from the mount of SearchWizard, through *)
(* its three steps, back and forth, up to its call of onComplete.          *)
(***************************************************************************)
InitWizard ==
    /\ remote = [subUnits |-> {"G1"}, yearFilter |-> TRUE, mixesLevels |-> FALSE,
                 gaps |-> {}, revises |-> FALSE]
    /\ variables = <<>>
    /\ unit = NullUnit
    /\ childLevel = None
    /\ selectedYears = InitialYears
    /\ searchMode = "WIZARD"
    /\ HomeInit
    /\ AgentOff
    /\ BrowserOff
    /\ StagedOff
    /\ GatewayOff
    /\ DisplayInit
    /\ FlowOff
    /\ wizardStep = 1
    /\ selected = <<>>
    /\ confirmed = [variables |-> <<>>, unit |-> None, childLevel |-> None]

NextWizard ==
    \/ \E selection \in VariableSelections(VarIds) \cup {<<>>} :
          setSelected(selection)
    \/ handleVariablesNext
    \/ handleBackToVariables
    \/ wizardStep = 2 /\ \E k \in 1..Len(currentLevelList) :
                            handleUnitClick(currentLevelList[k])
    \/ wizardStep = 2 /\ \E index \in -1..(Len(breadcrumbs) - 1) :
                            handleBreadcrumbClick(index)
    \/ wizardStep = 2 /\ handleBackUp
    \/ wizardStep = 2 /\ ListingArrives
    \/ wizardStep = 2 /\ ListingFails
    \/ wizardStep = 2 /\ \E level \in {None, Some(5), Some(6)} :
                            setChildLevel(level)
    \/ handleUnitNext
    \/ handleBackToUnit
    \/ \E year \in YearButtons : toggleYear(year)
    \/ handleTableNext

SpecWizard == InitWizard /\ [][NextWizard]_vars

(***************************************************************************)
(* SpecGateway: gateway operations followed down to their HTTP requests.   *)
(***************************************************************************)
InitGateway ==
    /\ remote = [subUnits |-> {}, yearFilter |-> TRUE, mixesLevels |-> FALSE,
                 gaps |-> {}, revises |-> FALSE]
    /\ variables = <<Variable(1)>>
    /\ unit = Unit("W1", 2)
    /\ childLevel = None
    /\ selectedYears = <<2022>>
    /\ searchMode = "WIZARD"
    /\ HomeInit
    /\ AgentOff
    /\ BrowserOff
    /\ StagedOff
    /\ GatewayOff
    /\ DisplayInit
    /\ FlowOff
    /\ WizardConfirmed

NextGateway ==
    \/ \E req \in GatewayRequests : \E viaAction \in BOOLEAN :
         \E apiKey \in ApiKeys : GusClientFetch(req, viaAction, apiKey)
    \/ HttpResponds
    \/ FetchRejects

SpecGateway == InitGateway /\ [][NextGateway]_vars

(***************************************************************************)
(* SpecExport: a wizard run followed by the exports of the grid view,      *)
(* for both stored years, against a remote that may hold no value for     *)
(* some (variable, unit, year) and may report a year twice.                *)
(***************************************************************************)
GapChoices ==
    {{}, {<<1, "G2", 2023>>, <<1, "W1", 2023>>},
     {<<v, "G2", 2023>> : v \in VarIds}}

InitExport ==
    /\ remote \in [subUnits : {SubUnitIds}, yearFilter : {TRUE},
                   mixesLevels : {FALSE}, gaps : GapChoices, revises : BOOLEAN]
    /\ remote.revises => remote.gaps = {}
    /\ variables \in {[k \in 1..n |-> Variable(k)] : n \in 1..NumVars}
    /\ unit = Unit("W1", 2)
    /\ childLevel \in ChildLevelOptions(unit)
    /\ selectedYears = StoredYears
    /\ searchMode = "WIZARD"
    /\ HomeInit
    /\ StagedOff
    /\ GatewayOff
    /\ DisplayInit
    /\ FlowOff
    /\ WizardConfirmed
    /\ AgentOff
    /\ BrowserOff

NextExport ==
    \/ handleWizardComplete
    \/ VariableDataArrives
    \/ VariableDataFails
    \/ UnitDataArrives
    \/ UnitDataFails
    \/ \E o \in Orientations : setOrientation(o)
    \/ downloadCSV
    \/ ComputeXmlContent

SpecExport == InitExport /\ [][NextExport]_vars

(***************************************************************************)
(* SpecXml: a wizard run followed by the XML rendering of the grid view,   *)
(* for a root unit whose name is plain or holds markup characters.         *)
(***************************************************************************)
\* The voivodship W1 under a name that holds markup characters.
MarkupUnit == [Unit("W1", 2) EXCEPT !.name = MarkupName]

InitXml ==
    /\ remote = [subUnits |-> SubUnitIds, yearFilter |-> TRUE,
                 mixesLevels |-> FALSE, gaps |-> {}, revises |-> FALSE]
    /\ variables \in {[k \in 1..n |-> Variable(k)] : n \in 1..NumVars}
    /\ unit \in {Unit("W1", 2), MarkupUnit}
    /\ childLevel \in ChildLevelOptions(unit)
    /\ selectedYears = StoredYears
    /\ searchMode = "WIZARD"
    /\ HomeInit
    /\ StagedOff
    /\ GatewayOff
    /\ DisplayInit
    /\ FlowOff
    /\ WizardConfirmed
    /\ AgentOff
    /\ BrowserOff

NextXml ==
    \/ handleWizardComplete
    \/ VariableDataArrives
    \/ VariableDataFails
    \/ UnitDataArrives
    \/ UnitDataFails
    \/ ComputeXmlContent

SpecXml == InitXml /\ [][NextXml]_vars

(***************************************************************************)
(* SpecAgent: Home as constructed (agent mode) with AgentSearch at IDLE;   *)
(* the user searches, changes the selection, confirms and switches modes,  *)
(* up to the first dataset shown.                                          *)
(***************************************************************************)
InitAgent ==
    /\ remote = [subUnits |-> {"G1"}, yearFilter |-> TRUE, mixesLevels |-> FALSE,
                 gaps |-> {}, revises |-> FALSE]
    /\ variables = <<Variable(1)>>
    /\ unit = Unit("W1", 2)
    /\ childLevel = None
    /\ selectedYears = <<2022>>
    /\ searchMode = "AGENT"
    /\ HomeInit
    /\ StagedOff
    /\ GatewayOff
    /\ DisplayInit
    /\ FlowOff
    /\ WizardConfirmed
    /\ AgentOff
    /\ BrowserOff

NextAgent ==
    \/ AgentHandleSearch
    \/ AgentAnalysisArrives
    \/ AgentSearchArrives
    \/ AgentMatchArrives
    \/ AgentSearchFails
    \/ \E selection \in {<<>>, <<Variable(2)>>} : onSelectionChange(selection)
    \/ handleConfirm
    \/ AgentUnitsArrive
    \/ AgentDataArrives
    \/ AgentRequestFails
    \/ \E mode \in {"WIZARD", "AGENT"} : setSearchMode(mode)

SpecAgent == InitAgent /\ [][NextAgent]_vars

(***************************************************************************)
(* Properties of one handleWizardComplete run (specification Spec).        *)
(***************************************************************************)
Finished == wc.pc = "done"

NoDataAlerts == {"No data found for the selected criteria.", "No data found."}

ErrorAlerts == {"Error fetching data: Failed to fetch data from GUS API"}

MultiUnitRun == wc.pc # "idle" /\ IsMultiUnit(wc.config[1])

SingleUnitRun == wc.pc # "idle" /\ ~IsMultiUnit(wc.config[1])

NoSlotFailed == \A k \in 1..Len(wc.slots) : wc.slots[k].st = "ok"

QueryVarIds == SeqRange(VarIdsOf(variables))

UnitIdsIn(items) == {items[k].id : k \in 1..Len(items)}

\* The raw value records the remote sent for unit `id` in one response page.
RECURSIVE RawValuesOf(_, _)
RawValuesOf(items, id) ==
    IF items = <<>> THEN <<>>
    ELSE (IF Head(items).id = id THEN Head(items).values ELSE <<>>)
         \o RawValuesOf(Tail(items), id)

\* The k-th response as the remote sent it (empty when it sent no results).
RawResponse(k) == IF answered[k] = None THEN <<>> ELSE answered[k][1][1]

Tagged(values, varId) ==
    [k \in 1..Len(values) |->
        [year |-> values[k].year, val |-> values[k].val, variableId |-> varId]]

\* C1: partial failure.  When a multi-unit run has finished with one
\* request failed and a sibling answered with data, no error is the
\* outcome and the dataset shown covers every unit the sibling reported.
C1_PartialFailureKeepsSiblings ==
    (/\ Finished
     /\ MultiUnitRun
     /\ \E k \in 1..Len(wc.slots) : wc.slots[k].st = "failed"
     /\ \E j \in 1..Len(wc.slots) : wc.slots[j].st = "ok" /\ wc.slots[j].data # <<>>)
    => /\ lastAlert \notin ErrorAlerts
       /\ viewMode = "GRID"
       /\ \A j \in 1..Len(wc.slots) :
            UnitIdsIn(wc.slots[j].data) \subseteq UnitIdsIn(data)

\* C4: two-hop resolution.  A run dividing a level-2 unit into level-6
\* units has listed the intermediate level-5 units under it exactly once
\* by the time it asks for data.
C4_TwoHopListsIntermediateLevel ==
    (/\ MultiUnitRun
     /\ unit.level = 2
     /\ childLevel = Some(6)
     /\ \E k \in 1..Len(calls) : calls[k].op = "getVariableData")
    => Cardinality({k \in 1..Len(calls) :
                       calls[k] = getUnits(5, Some(unit.id))}) = 1

\* C6: no target level.  A run without a child level asks for the data of
\* the selected unit alone, in one by-unit call, and lists no units.
C6_NoTargetLevelFetchesRootOnly ==
    (wc.pc # "idle" /\ childLevel = None)
    => /\ Len(calls) = 1
       /\ calls[1].op = "getUnitData"
       /\ calls[1].unitId = unit.id
       /\ calls[1].variableIds = VarIdsOf(variables)

C6_SingleUnitShown ==
    /\ Finished
    /\ childLevel = None
    /\ viewMode = "GRID"
    /\ Len(data) = Len(variables)
    /\ inFlight = {}

\* C7: pivot.  After a multi-unit run in which every request was answered,
\* the dataset has one entry per distinct unit id the responses name, and
\* an entry's records tagged with a variable are exactly the records the
\* response for that variable holds for the unit; no record carries another tag.
C7_PivotOneEntryPerUnit ==
    (Finished /\ MultiUnitRun /\ NoSlotFailed)
    => /\ \A i, j \in 1..Len(data) : data[i].id = data[j].id => i = j
       /\ UnitIdsIn(data) = UNION {UnitIdsIn(RawResponse(k)) : k \in 1..Len(answered)}
       /\ \A i \in 1..Len(data) :
            /\ \A k \in 1..Len(variables) :
                 SelectSeq(data[i].values,
                           LAMBDA v : v.variableId = variables[k].id)
                   = Tagged(RawValuesOf(RawResponse(k), data[i].id),
                            variables[k].id)
            /\ \A n \in 1..Len(data[i].values) :
                 data[i].values[n].variableId \in QueryVarIds

C7_TwoVariablesTwoUnits ==
    /\ Finished
    /\ MultiUnitRun
    /\ NoSlotFailed
    /\ Len(variables) = 2
    /\ Len(data) = 2
    /\ \A i \in 1..Len(data) :
         /\ Len(data[i].values) = 2
         /\ data[i].values[1].variableId # data[i].values[2].variableId

\* First-seen order of the unit ids of a sequence of unit entries.
RECURSIVE FirstSeen(_, _)
FirstSeen(items, seen) ==
    IF items = <<>> THEN <<>>
    ELSE IF Head(items).id \in seen THEN FirstSeen(Tail(items), seen)
    ELSE <<Head(items).id>> \o FirstSeen(Tail(items), seen \cup {Head(items).id})

\* The raw results of requests 1..n, concatenated in request order.
RECURSIVE RawInRequestOrder(_)
RawInRequestOrder(n) ==
    IF n = 0 THEN <<>> ELSE RawInRequestOrder(n - 1) \o RawResponse(n)

\* The records of unit `id` from requests 1..n, in request order.
RECURSIVE RecordsInRequestOrder(_, _)
RecordsInRequestOrder(n, id) ==
    IF n = 0 THEN <<>>
    ELSE RecordsInRequestOrder(n - 1, id)
         \o Tagged(RawValuesOf(RawResponse(n), id), variables[n].id)

\* C8: completion-order independence.  After a multi-unit run in which
\* every request was answered, the dataset is determined by the responses
\* taken in request order, whatever order they arrived in: units in
\* first-seen order, each unit's records in request order.
C8_CompletionOrderIndependent ==
    (Finished /\ MultiUnitRun /\ NoSlotFailed)
    => LET order == FirstSeen(RawInRequestOrder(Len(answered)), {})
       IN /\ [i \in 1..Len(data) |-> data[i].id] = order
          /\ \A i \in 1..Len(data) :
               data[i].values = RecordsInRequestOrder(Len(answered), data[i].id)

C8_LaterRequestAnsweredFirst ==
    /\ Finished
    /\ MultiUnitRun
    /\ NoSlotFailed
    /\ outOfOrder
    /\ Len(data) = 2
    /\ RawResponse(1) # RawResponse(2)
    /\ UnitIdsIn(RawResponse(1)) # UnitIdsIn(RawResponse(2))

\* C9: dataset membership.  Every record of the dataset shown belongs to
\* a variable of the query and to a year of the query.
C9_RecordsBelongToQuery ==
    /\ MultiUnitRun =>
         \A i \in 1..Len(data) : \A n \in 1..Len(data[i].values) :
            /\ data[i].values[n].variableId \in QueryVarIds
            /\ data[i].values[n].year \in SeqRange(selectedYears)
    /\ SingleUnitRun =>
         \A i \in 1..Len(data) :
            /\ data[i].id \in QueryVarIds
            /\ \A n \in 1..Len(data[i].values) :
                 data[i].values[n].year \in SeqRange(selectedYears)

\* C10: empty result is distinct from failure.  A run that finished
\* without a failed request reports "no data" and shows no dataset
\* whenever what it fetched holds no entry.
C10_EmptyResultIsNoData ==
    (Finished /\ NoSlotFailed
     /\ \A k \in 1..Len(wc.slots) : wc.slots[k].data = <<>>)
    => /\ lastAlert \in NoDataAlerts
       /\ viewMode = "WIZARD"

(***************************************************************************)
(* Properties of overlapping queries (specification SpecStale).            *)
(***************************************************************************)
\* C2: stale results are discarded.  Whenever the dataset is replaced, it
\* is replaced by results of the query issued last: a response of an older
\* query that arrives after a newer query was issued installs nothing.
C2_StaleResultsDiscarded ==
    [][dataQuery' # dataQuery => dataQuery' = issued']_vars

(***************************************************************************)
(* Properties of the request fan-out (specification SpecFanOut).           *)
(***************************************************************************)
\* C3: bounded concurrency.  At every moment the number of data requests
\* in flight is at most the batch size.
C3_InFlightAtMostBatchSize == Cardinality(inFlight) <= BatchSize

(***************************************************************************)
(* Properties of the territory browser (specification SpecBrowser).        *)
(***************************************************************************)
\* C5: strict level filtering.  Every unit kept from a listing of level X
\* has level exactly X.
C5_ListedUnitsHaveAskedLevel ==
    listLevel # None =>
        \A k \in 1..Len(currentLevelList) :
            currentLevelList[k].level = listLevel[1]

(***************************************************************************)
(* Properties of the staged workflow (specification SpecStaged).           *)
(***************************************************************************)
\* The level of the candidate unit with the given id.
CandidateLevel(id) ==
    candidateUnits[CHOOSE k \in 1..Len(candidateUnits) :
                      candidateUnits[k].id = id].level

\* targetLevel is strictly more local than rootLevel in the order 2 < 5 < 6.
MoreLocal(targetLevel, rootLevel) ==
    /\ {targetLevel, rootLevel} \subseteq {2, 5, 6}
    /\ targetLevel > rootLevel

\* C11: invalid queries never reach the network.  Every data request
\* issued carries a non-empty year set and a non-empty variable set, and
\* a request for the units under a root unit names a level strictly more
\* local than the root unit's.
C11_InvalidQueriesNeverSent ==
    \A k \in 1..Len(calls) :
        /\ calls[k].year # <<>>
        /\ calls[k].op = "getUnitData" => calls[k].variableIds # <<>>
        /\ (calls[k].op = "getVariableData" /\ calls[k].parentId # None)
             => MoreLocal(calls[k].unitLevel,
                          CandidateLevel(calls[k].parentId[1]))

\* The level the unit level enum gives the unit types it names.
EnumLevel(type) ==
    CASE toLowerCase(type) = "wojewodztwo" -> 2
      [] toLowerCase(type) = "powiat" -> 5
      [] toLowerCase(type) = "gmina" -> 6

\* C12: level codes.  The level a multi-unit request names is never 4 and,
\* for a target unit type the enum names, is the enum's level of the type.
C12_TargetLevelAgreesWithEnum ==
    \A k \in 1..Len(calls) :
        calls[k].op = "getVariableData" =>
            /\ calls[k].unitLevel # 4
            /\ \A type \in {"wojewodztwo", "Powiat", "gmina"} :
                 queryAnalysis[1].targetUnitType = Some(type)
                    => calls[k].unitLevel = EnumLevel(type)

(***************************************************************************)
(* The fetch strategy of a wizard run (specification Spec).                *)
(***************************************************************************)
\* C13: fetch strategy.  A run without a child level has issued exactly
\* one by-unit call with all variable ids and all years; a run with a
\* child level has issued exactly one by-variable call per variable, with
\* that level as unit level and the selected unit as parent, and no other
\* data call.
C13_FetchStrategy ==
    wc.pc # "idle" =>
        IF childLevel = None
        THEN calls = <<[op |-> "getUnitData", unitId |-> unit.id,
                        variableIds |-> [k \in 1..Len(variables) |-> variables[k].id],
                        year |-> selectedYears]>>
        ELSE calls = [k \in 1..Len(variables) |->
                        [op |-> "getVariableData",
                         variableId |-> variables[k].id,
                         unitLevel |-> childLevel[1],
                         year |-> selectedYears,
                         parentId |-> Some(unit.id)]]

C13_OneCallPerVariableIssued ==
    /\ MultiUnitRun
    /\ Len(variables) = 2
    /\ Len(calls) = 2
    /\ calls[1].variableId # calls[2].variableId
    /\ viewMode = "GRID"

(***************************************************************************)
(* Properties of the gateway (specification SpecGateway).                  *)
(***************************************************************************)
\* The HTTP requests sent for the i-th operation.
RequestsOf(i) == {k \in 1..Len(http) : http[k].op = i}

\* The i-th operation threw on a response that was not a success.
ThrewOnResponse(i) == ops[i].pc = "thrown" /\ ops[i].response # None

\* C14: no retry.  Every gateway operation has sent exactly one HTTP
\* request, whether it is still waiting, has returned a page that names a
\* further page, or has failed.
C14_OneHttpRequestPerOperation ==
    /\ Len(http) = Len(ops)
    /\ \A i \in 1..Len(ops) : Cardinality(RequestsOf(i)) = 1

C14_FailedAndPagedOperations ==
    \E i, j \in 1..Len(ops) :
        /\ ThrewOnResponse(i)
        /\ ops[j].pc = "returned"
        /\ ops[j].result[1].links.next # None

\* C15: gateway error value.  An operation answered with a non-success
\* status returns no result and raises an error that carries the HTTP
\* status and the remote message: two such operations that raise the same
\* error were answered with the same status and the same remote message.
C15_ErrorCarriesStatusAndMessage ==
    /\ \A i \in 1..Len(ops) :
         ThrewOnResponse(i) => ops[i].result = None /\ ops[i].error # None
    /\ \A i, j \in 1..Len(ops) :
         (ThrewOnResponse(i) /\ ThrewOnResponse(j) /\ ops[i].error = ops[j].error)
         => /\ ops[i].response[1].status = ops[j].response[1].status
            /\ ops[i].response[1].body.errors = ops[j].response[1].body.errors

(***************************************************************************)
(* Properties of the exports (specification SpecExport).                   *)
(***************************************************************************)
\* The dataset shown is a multi-unit one.
MultiUnitShown == DisplayRendered /\ isMultiUnit(Some(resultContext[1].analysis))

\* The CSV files downloaded so far.
Downloaded == {downloads[o][1] : o \in {x \in Orientations : downloads[x] # None}}

\* The records of `values` that satisfy the test, in their order.
Matching(values, Test(_)) == SelectSeq(values, Test)

\* The cell text of the last record by arrival that satisfies the test.
LastCellText(values, Test(_)) ==
    LET found == Matching(values, Test)
    IN IF found = <<>> THEN "" ELSE CellText(Some(found[Len(found)]))

\* The rows of a multi-unit export written for (unit id, year).
RowsFor(dl, id, year) ==
    {k \in 1..Len(dl.rows) :
        dl.rows[k][1] = id /\ dl.rows[k][3] = ToString(year)}

\* C16: missing-cell contract.  In every CSV downloaded each data row has
\* as many fields as the header, every row/column intersection of the
\* layout is present, and an intersection without a record is an empty
\* field.
C16_MissingCellsAreEmptyFields ==
    \A o \in Orientations : downloads[o] # None =>
        LET dl == downloads[o][1]
            years == getAllYears(data)
        IN /\ \A k \in 1..Len(dl.rows) : Len(dl.rows[k]) = Len(dl.header)
           /\ IF MultiUnitShown
              THEN \A i \in 1..Len(data) : \A j \in 1..Len(years) :
                      /\ RowsFor(dl, data[i].id, years[j]) # {}
                      /\ \A k \in RowsFor(dl, data[i].id, years[j]) :
                         \A n \in 1..Len(UniqueVars(data)) :
                            UnitCell(data[i], UniqueVars(data)[n], years[j]) = None
                               => dl.rows[k][3 + n] = ""
              ELSE IF o = "vars-cols"
              THEN /\ Len(dl.rows) = Len(years)
                   /\ \A j \in 1..Len(years) : \A i \in 1..Len(data) :
                         YearCell(data[i], years[j]) = None
                            => dl.rows[j][1 + i] = ""
              ELSE /\ Len(dl.rows) = Len(data)
                   /\ \A i \in 1..Len(data) : \A j \in 1..Len(years) :
                         YearCell(data[i], years[j]) = None
                            => dl.rows[i][1 + j] = ""

\* C17: multi-unit CSV shape.  The header is UnitId,UnitName,Year and one
\* quoted column per variable; the data rows are one per (unit, year),
\* units in dataset order and years ascending, also where the unit has no
\* record for the year.
C17_OneRowPerUnitAndYear ==
    MultiUnitShown =>
        \A dl \in Downloaded :
            LET years == getAllYears(data)
                uv == UniqueVars(data)
            IN /\ dl.header = <<"UnitId", "UnitName", "Year">>
                    \o [n \in 1..Len(uv) |->
                          Quoted(VarLabel(resultContext[1].variables, uv[n]))]
               /\ Len(dl.rows) = Len(data) * Len(years)
               /\ \A i \in 1..Len(data) : \A j \in 1..Len(years) :
                     LET row == dl.rows[(i - 1) * Len(years) + j]
                     IN /\ row[1] = data[i].id
                        /\ row[2] = Quoted(data[i].name)
                        /\ row[3] = ToString(years[j])

\* C18: duplicate records.  After a multi-unit run in which every request
\* was answered, a unit's records are all the records the responses hold
\* for it, in request order, duplicates included; and every cell of a
\* multi-unit export shows the last record by arrival for its (unit,
\* variable, year).
C18_DuplicatesKeptLastWins ==
    /\ (Finished /\ MultiUnitRun /\ NoSlotFailed) =>
          \A i \in 1..Len(data) :
             data[i].values = RecordsInRequestOrder(Len(answered), data[i].id)
    /\ MultiUnitShown =>
          \A dl \in Downloaded :
             \A i \in 1..Len(data) : \A year \in SeqRange(getAllYears(data)) :
                \A k \in RowsFor(dl, data[i].id, year) :
                   \A n \in 1..Len(UniqueVars(data)) :
                      dl.rows[k][3 + n] =
                         LastCellText(data[i].values,
                                      LAMBDA v : /\ v.variableId = UniqueVars(data)[n]
                                                 /\ v.year = year)

\* C19: XML determinism.  Whenever the XML is generated again from the same
\* dataset and query context, the document is the one generated before.
C19_XmlDeterministic ==
    [][(/\ xmlContent # None
        /\ xmlContent' # None
        /\ data' = data
        /\ resultContext' = resultContext)
       => xmlContent' = xmlContent]_vars

XmlShown ==
    /\ DisplayRendered
    /\ Len(data) # 0
    /\ xmlContent = Some(generateGusXml(XmlData(data, resultContext[1]), now))

\* C21: XML escaping.  Every piece of input text placed in the document
\* shown (unit ids and names, variable names, measure units, values) is
\* written with each of < > & ' " replaced by its entity.
C21_EveryPlacedTextEscaped ==
    XmlShown =>
        \A p \in PlacedTexts(XmlData(data, resultContext[1])) :
            p.written = escapeXml(p.text)

\* The value a record stores, under `value` or under `val`.
StoredText(val) ==
    IF "value" \in DOMAIN val THEN ToString(val.value) ELSE ToString(val.val)

\* A Record element that carries the record's variable id, year, stored
\* value and, when present, attribute id.
CarryingRecord(indent, varId, val) ==
    indent \o "<Record varId=\"" \o ToString(varId) \o "\" year=\""
    \o ToString(val.year) \o "\">\n"
    \o indent \o "  <Value>" \o StoredText(val) \o "</Value>\n"
    \o (IF AttrIdOf(val) # None
        THEN indent \o "  <AttributeId>" \o ToString(AttrIdOf(val)[1])
             \o "</AttributeId>\n"
        ELSE "")
    \o indent \o "</Record>"

\* The value records of the dataset in dataset order, each as the Record
\* element that carries it.
CarriedRecords(d, multi) ==
    Flatten([i \in 1..Len(d) |->
        [k \in 1..Len(d[i].values) |->
            IF multi
            THEN CarryingRecord("      ", d[i].values[k].variableId, d[i].values[k])
            ELSE CarryingRecord("    ", d[i].id, d[i].values[k])]])

\* C22: lossless XML.  The document shown holds exactly one Record per
\* value record of the dataset, in dataset order, and each Record carries
\* that record's variable id, year, attribute id when present, and its
\* value whether stored under `value` or under `val`.
C22_OneCarryingRecordPerValue ==
    XmlShown =>
        RecordTexts(XmlData(data, resultContext[1]))
            = CarriedRecords(data, isMultiUnit(Some(resultContext[1].analysis)))


(***************************************************************************)
(* The client-id header (specification SpecGateway).                       *)
(***************************************************************************)
\* The values of the X-ClientId headers of an HTTP request.
ClientIds(request) ==
    {request.headers[k][2] : k \in {j \in 1..Len(request.headers) :
                                        request.headers[j][1] = "X-ClientId"}}

\* C23: authentication header.  A request carries the client-id header,
\* with the key as its value, if and only if its client was constructed
\* with a non-empty key; an operation of a client without a key has sent
\* its request all the same, and has thrown only on a response that was
\* not a success or on a failure of the transport.
C23_ClientIdIffKeyConfigured ==
    /\ \A k \in 1..Len(http) :
          ClientIds(http[k]) = IF ops[http[k].op].apiKey # ""
                               THEN {ops[http[k].op].apiKey} ELSE {}
    /\ \A i \in 1..Len(ops) :
          ops[i].apiKey = "" =>
            /\ RequestsOf(i) # {}
            /\ ops[i].pc = "thrown" =>
                  \/ ThrewOnResponse(i) /\ ~Ok(ops[i].response[1])
                  \/ ops[i].error = Some(Raised(ops[i], [message |-> "fetch failed"]))

\* One operation with a key and one without have sent their requests,
\* and the one without a key has returned its page.
C23_KeyedAndKeylessRequestsSent ==
    \E i, j \in 1..Len(ops) :
        /\ ops[i].apiKey # "" /\ RequestsOf(i) # {}
        /\ ops[j].apiKey = "" /\ ops[j].pc = "returned"
        /\ \E k \in RequestsOf(j) : ClientIds(http[k]) = {}
        /\ \E k \in RequestsOf(i) : ClientIds(http[k]) = {ops[i].apiKey}


(***************************************************************************)
(* The shape of the dataset handed to DataDisplay (specification           *)
(* SpecStale).                                                             *)
(***************************************************************************)
\* A list of units, each with a name and values tagged with a variable id.
UnitMajor(d) ==
    \A i \in 1..Len(d) :
        /\ "name" \in DOMAIN d[i]
        /\ \A k \in 1..Len(d[i].values) : "variableId" \in DOMAIN d[i].values[k]

\* A list of variables, each with the values of the one unit asked for.
VariableMajor(d) ==
    \A i \in 1..Len(d) :
        /\ "name" \notin DOMAIN d[i]
        /\ \A k \in 1..Len(d[i].values) : "variableId" \notin DOMAIN d[i].values[k]

\* C24: shape/scope agreement.  The dataset DataDisplay renders is
\* unit-major if and only if the analysis that accompanies it has scope
\* 'multi_unit', and variable-major otherwise.
C24_ShapeAgreesWithScope ==
    (DisplayRendered /\ Len(data) # 0) =>
        IF isMultiUnit(Some(resultContext[1].analysis))
        THEN UnitMajor(data)
        ELSE VariableMajor(data)


(***************************************************************************)
(* Consistency of the territory browser (specification SpecBrowser).       *)
(***************************************************************************)
\* The lists the browser shows for a listing of the children of the last
\* breadcrumb, the level-2 roots when there is no breadcrumb.
ListingsUnderBreadcrumbs ==
    LET last == breadcrumbs[Len(breadcrumbs)]
        answers == IF breadcrumbs = <<>> THEN ListingResults(2, None)
                   ELSE ListingResults(NextLevel(last), Some(last.id))
    IN {SortByName(OrEmpty(r)) : r \in answers}

\* C25: territory browser consistency.  Once no listing is in flight the
\* list shown is a listing of the children of the last breadcrumb (of the
\* level-2 roots when there is none), and the breadcrumbs have the levels
\* 2, then 5.
C25_ListMatchesBreadcrumbs ==
    pending = <<>> =>
        /\ currentLevelList \in ListingsUnderBreadcrumbs
        /\ Len(breadcrumbs) <= 2
        /\ \A k \in 1..Len(breadcrumbs) :
              breadcrumbs[k].level = IF k = 1 THEN 2 ELSE 5

\* Two levels down, with the communes of the district listed and nothing
\* in flight.
C25_DrilledDownToCommunes ==
    /\ pending = <<>>
    /\ Len(breadcrumbs) = 2
    /\ currentLevelList # <<>>
    /\ \A k \in 1..Len(currentLevelList) : currentLevelList[k].level = 6


(***************************************************************************)
(* The step machine of AgentSearch (specification SpecAgent).              *)
(***************************************************************************)
Steps == {"IDLE", "EXTRACTING", "SEARCHING", "MATCHING", "CONFIRMATION",
          "QUERYING", "DONE"}

\* The moves forward, and the returns after a failure.
ForwardAndFailureMoves ==
    {<<"IDLE", "EXTRACTING">>, <<"EXTRACTING", "SEARCHING">>,
     <<"SEARCHING", "MATCHING">>, <<"MATCHING", "CONFIRMATION">>,
     <<"CONFIRMATION", "QUERYING">>, <<"QUERYING", "DONE">>,
     <<"EXTRACTING", "IDLE">>, <<"SEARCHING", "IDLE">>, <<"MATCHING", "IDLE">>,
     <<"QUERYING", "CONFIRMATION">>}

\* A new search submitted from the confirmation step or after a result.
RestartMoves == {<<"CONFIRMATION", "EXTRACTING">>, <<"DONE", "EXTRACTING">>}

\* The step of an AgentSearch that stays mounted changes by a move of
\* `allowed` only.
StepMovesWithin(allowed) ==
    (AgentMounted /\ AgentMounted' /\ step' # step) => <<step, step'>> \in allowed

\* A handler of a mounted AgentSearch fails: the step returns to IDLE from
\* a search and to CONFIRMATION from a query, with an error set.
FailureReturns ==
    (ac.live /\ ac.pc # "failed" /\ ac'.pc = "failed") =>
        /\ error' # None
        /\ step' = IF ac.pc \in SearchAwaits THEN "IDLE" ELSE "CONFIRMATION"

\* onDataFound is called, and the grid view entered, only by a handler
\* that awaits the data of its query and has not delivered it yet; on a
\* mounted AgentSearch the step is then QUERYING.
DataFoundFromQueryingOnce ==
    ((ac.pc # "done" /\ ac'.pc = "done") \/ (viewMode # "GRID" /\ viewMode' = "GRID")) =>
        /\ ac.pc = "awaitData"
        /\ ac'.pc = "done"
        /\ dataQuery # ac.q
        /\ dataQuery' = ac.q
        /\ ac.live => step = "QUERYING"

C27_FailedFetchChangesOnlyFlagAndAlert ==
    (Finished /\ ~NoSlotFailed) =>
        /\ data = <<>>
        /\ viewMode = "WIZARD"
        /\ resultContext = None
        /\ searchMode = "WIZARD"
        /\ isProcessing = FALSE
        /\ lastAlert \in ErrorAlerts

(***************************************************************************)
(* Properties of the progress flag (specification SpecProgress).           *)
(***************************************************************************)
\* Some handler that raised isProcessing has not ended yet.
HandlerRunning ==
    \/ hs.pc \in {"awaitAnalysis", "awaitUnits", "awaitVars", "awaitRank"}
    \/ more.units > 0
    \/ Len(more.vars) > 0
    \/ pg.pc \in {"awaitAll", "awaitUnit"}
    \/ wc.pc \in {"awaitAll", "awaitUnit"}

\* C28: every handler that raises isProcessing (handleSearch,
\* handleSearchMoreUnits, handleSearchMoreVars, handleProceedToGrid,
\* handleWizardComplete) lowers it when it ends, however its requests went:
\* once no such handler is running the flag is false, and while the flag
\* is up a request of a running handler is still to complete or fail.
C28_FlagReleasedWhenHandlersEnd ==
    /\ ~HandlerRunning => ~isProcessing
    /\ isProcessing => ENABLED RequestSettles

\* C28, the case: a grid fetch has ended on a failed request, a later
\* handleSearch has ended by throwing (its stage was never advanced), and
\* the flag is down.
C28_HandlersEndedOnFailure ==
    /\ ~HandlerRunning
    /\ ~isProcessing
    /\ hs.pc = "done"
    /\ stage = "INIT"
    /\ pg.pc = "done"
    /\ \E k \in 1..Len(pg.slots) : pg.slots[k] = FailedSlot

(***************************************************************************)
(* Properties of the staged workflow's stages (specification SpecFlow).    *)
(***************************************************************************)
GridShown == stage \in {"GRID_PREVIEW", "DONE"}

\* A step that starts handleSearch.
SearchStarts == hs.pc # "awaitAnalysis" /\ hs'.pc = "awaitAnalysis"

\* C29: in the staged workflow the stage is one of INIT, CONFIGURATION,
\* GRID_PREVIEW, DONE; whenever it is GRID_PREVIEW or DONE the retained
\* dataset is non-empty, in every interleaving of handleSearch,
\* handleProceedToGrid and handleFinalFetch; and a step that starts a new
\* search leaves the stage at INIT and the dataset empty.
C29_GridStagesHoldData ==
    /\ [](stage \in {"INIT", "CONFIGURATION", "GRID_PREVIEW", "DONE"})
    /\ [](GridShown => Len(data) > 0)
    /\ [][SearchStarts => (stage' = "INIT" /\ data' = <<>>)]_vars

\* C29, the case: a grid fetch started before a new search was answered
\* while that search is still running, so its dataset is on show at
\* GRID_PREVIEW although the search had emptied it.
C29_StaleGridLandsDuringSearch ==
    /\ stage = "GRID_PREVIEW"
    /\ hs.pc \in {"awaitAnalysis", "awaitUnits", "awaitVars", "awaitRank"}
    /\ pg.pc = "done"
    /\ Len(data) > 0
(***************************************************************************)
(* Properties of the wizard's ordering (specification SpecWizard).         *)
(***************************************************************************)
\* A step in which the wizard calls onComplete.
CompleteFires == wc.pc = "idle" /\ wc'.pc # "idle"

\* The configuration onComplete received.
Passed == wc.config[1]

\* C30: the wizard step is always 1, 2 or 3; onComplete fires only from
\* step 3, after a variables confirmation and a unit confirmation have each
\* happened; the variables, unit and childLevel it passes are those of the
\* most recent confirmations; and childLevel is reset to undefined whenever
\* the unit selected in the second step changes.
C30_WizardOrdering ==
    /\ [](wizardStep \in {1, 2, 3})
    /\ [](wizardStep = 3 =>
            /\ variables = confirmed.variables
            /\ Some(unit) = confirmed.unit
            /\ childLevel = confirmed.childLevel)
    /\ [][CompleteFires =>
            /\ wizardStep = 3
            /\ confirmed.variables # <<>>
            /\ confirmed.unit # None
            /\ Passed' = [variables |-> confirmed.variables,
                          unit |-> confirmed.unit[1],
                          childLevel |-> confirmed.childLevel,
                          years |-> selectedYears]]_vars
    /\ [][selectedUnit' # selectedUnit => scopeLevel' = None]_vars

\* C30, the case: onComplete has received two variables and a voivodeship
\* divided into communes, the scope having been chosen after the unit.
C30_CompletedWithSubUnitScope ==
    /\ wc.pc # "idle"
    /\ wizardStep = 3
    /\ Len(Passed.variables) = 2
    /\ Passed.unit.level = 2
    /\ Passed.childLevel = Some(5)
====
